---- MODULE Spec2Model ----
(***************************************************************************)
(* The code-listing synchronisation scripts of the tutorial repository:    *)
(*   scripts/util.mjs         document enumeration, annotation parsing,    *)
(*                            listing extraction                           *)
(*   scripts/export-code.mjs  replay of the listings into git repositories *)
(*   scripts/import-code.mjs  commit reader and importer (the current      *)
(*                            revision is src/unnamed/part_008)            *)
(*                                                                         *)
(* Representation of text.                                                 *)
(*  - A file content or a code string is the sequence of its lines, i.e.   *)
(*    what String.split("\n") returns: never empty, "x\n" is <<"x", "">>.  *)
(*  - An annotation (node.meta) and a highlight string are sequences of    *)
(*    symbols.  The characters the regular expressions of the scripts look *)
(*    at ("{", "}", " ", ",", "-") are symbols of their own; a maximal     *)
(*    piece of other text (a number, a flag word, a whole                  *)
(*    filename="<path> | <title>" token) is one symbol.                    *)
(***************************************************************************)
EXTENDS Integers, Sequences, FiniteSets, TLC

VARIABLES
    pages,              \* the documents on disk: name -> sequence of code nodes
    repo,               \* per language, the git history, oldest commit first
    ipc,                \* position of the import script
    langIdx,            \* index into importSpecs of the language being imported
    mdxListingsByLang,  \* importCodeFromGitToMdx: const mdxListingsByLang
    gitCommits,         \* importCodeFromGitToMdx: const gitCommits (current language)
    fileIdx,            \* index into mdxFilenames of the next document to rewrite
    console,            \* what the import script printed so far
    writes,             \* the fs.writeFileSync calls of the import script, in order
    pages0,             \* history: the documents as they were before the script ran
    epc,                \* position of the export script
    opts,               \* the command-line options of the export script
    starter,            \* the starter repositories: language -> files
    exportFolder,       \* the export folder "code": language -> working copy
    listingsByLang,     \* exportCodeFromMdxToGit: let listingsByLang
    eLangIdx,           \* index of the language being exported
    eIdx,               \* index of the listing being exported
    imageNo,            \* exportCodeFromMdxToGit: let i
    elog                \* the steps the export script has completed, in order

importVars == <<pages, repo, ipc, langIdx, mdxListingsByLang, gitCommits, fileIdx,
                console, writes, pages0>>
exportVars == <<epc, opts, starter, exportFolder, listingsByLang, eLangIdx, eIdx,
                imageNo, elog>>
vars == <<importVars, exportVars>>

-----------------------------------------------------------------------------
(* Bounds of the model *)

\* code nodes in the first document of the cross-reference scenarios
MaxNodes == 1
\* commits in the rust history of the cross-reference scenarios
MaxCommits == 2
\* lines of a committed file in the highlight scenarios
MaxLines == 4
\* diff hunks of a commit in the highlight scenarios
MaxHunks == 2
\* tokens after the filename token in the annotation scenarios
MaxTokens == 2
\* rust code nodes in the main document of the export scenarios
MaxListings == 2

-----------------------------------------------------------------------------
(* Generic helpers *)

SeqsUpTo(S, n) == UNION {[1..k -> S] : k \in 0..n}

RECURSIVE Reverse(_)
Reverse(s) == IF s = <<>> THEN <<>> ELSE Append(Reverse(Tail(s)), Head(s))

RECURSIVE Flatten(_)
Flatten(ss) == IF ss = <<>> THEN <<>> ELSE Head(ss) \o Flatten(Tail(ss))

Range(s) == {s[i] : i \in DOMAIN s}

\* Number.prototype.toString is ToString of the TLC module

-----------------------------------------------------------------------------
(* Symbols of annotations and highlight strings *)

Ch(c) == [k |-> "ch", a |-> c, b |-> ""]
SP == Ch(" ")
\* filename="<path> | <title>"
FilenameTok(path, title) == [k |-> "filename", a |-> path, b |-> title]
\* addCargoDep="<name>"
AddCargoDepTok(name) == [k |-> "addCargoDep", a |-> name, b |-> ""]

-----------------------------------------------------------------------------
(* scripts/util.mjs *)

ALLOW_LANGS == {"rust", "cpp"}

\* A document is named by its directory under pages/ and its chapter number:
\* pages/<dir><no>-<slug>.mdx, <dir> empty or ending in "/" (the glob is
\* "pages/**/*-*.mdx").  The directories, in the order of localeCompare:
Dirs == <<"", "extra/">>
DirRank(dir) == CHOOSE i \in DOMAIN Dirs : Dirs[i] = dir
DocName(dir, no) == [dir |-> dir, no |-> no]

\* the comparison with the chapter numbers compared the other way round
LocaleCompareLess_Descending(a, b) ==
    IF a.dir # b.dir THEN DirRank(a.dir) < DirRank(b.dir) ELSE a.no > b.no

\* a.localeCompare(b, undefined, {numeric: true, sensitivity: "base"}) < 0 for
\* the paths of two documents: the strings are compared from the left, so the
\* directory decides first (a digit sorts before a letter: a document of pages/
\* comes before every document of a subdirectory), then the chapter number,
\* compared as a number
LocaleCompareLess(a, b) ==
    IF a.dir # b.dir THEN DirRank(a.dir) < DirRank(b.dir) ELSE a.no < b.no

RECURSIVE SortedSeq(_)
SortedSeq(S) ==
    IF S = {} THEN <<>>
    ELSE LET m == CHOOSE x \in S : \A y \in S \ {x} : LocaleCompareLess(x, y)
         IN <<m>> \o SortedSeq(S \ {m})

getSortedMdxFilenames(pgs) == SortedSeq(DOMAIN pgs)

\* /(^|\s)genImage(\s|$)/
HasGenImage(meta) ==
    \E i \in DOMAIN meta :
        /\ meta[i] = Ch("genImage")
        /\ (i = 1 \/ meta[i - 1] = SP)
        /\ (i = Len(meta) \/ meta[i + 1] = SP)

parseMdAstNodeMeta(node) ==
    LET meta == node.meta
        deps == {i \in DOMAIN meta : meta[i].k = "addCargoDep"}
        \* /^filename="(\S+) \| ([^"]*)"(.*)$/ : anchored at the start
        m == meta # <<>> /\ meta[1].k = "filename"
    IN [lang        |-> node.lang,
        filename    |-> IF m THEN meta[1].a ELSE "",
        title       |-> IF m THEN meta[1].b ELSE "",
        addCargoDep |-> IF deps = {} THEN ""
                        ELSE meta[CHOOSE i \in deps : \A j \in deps : i <= j].a,
        genImage    |-> HasGenImage(meta)]

\* the visit callback of extractCodeBlocksFromMdxFile: the listings of one node
ListingOfNode(node) ==
    LET meta == parseMdAstNodeMeta(node)
    IN IF node.meta = <<>> \/ node.lang \notin ALLOW_LANGS \/ meta.title = ""
       THEN <<>>
       ELSE << [lang        |-> node.lang,
                filename    |-> meta.filename,
                title       |-> meta.title,
                addCargoDep |-> meta.addCargoDep,
                genImage    |-> meta.genImage,
                code        |-> node.value] >>

extractCodeBlocksFromMdxFile(nodes) ==
    Flatten([i \in DOMAIN nodes |-> ListingOfNode(nodes[i])])

\* all listings, documents in sorted order, nodes top to bottom
AllListings(pgs) ==
    LET names == getSortedMdxFilenames(pgs)
    IN Flatten([i \in DOMAIN names |-> extractCodeBlocksFromMdxFile(pgs[names[i]])])

\* a JavaScript object keyed by language: only languages with a listing are keys
getMdxListingsByLang(pgs) ==
    LET all == AllListings(pgs)
    IN [l \in {all[i].lang : i \in DOMAIN all} |->
            SelectSeq(all, LAMBDA x : x.lang = l)]

-----------------------------------------------------------------------------
(* git, as the scripts use it.  A commit of a history is                   *)
(*   [message, files], files a sequence of [path, hunks, content]:         *)
(* the files the commit touches in the order of its diff, the hunks of     *)
(* each file's diff against the parent and its full content at the commit. *)

\* a hunk header @@ -oldStart,oldCount +newStart,newCount @@
Hunk(oldStart, oldCount, newStart, newCount) ==
    [oldStart |-> oldStart, oldCount |-> oldCount,
     newStart |-> newStart, newCount |-> newCount]

\* the subject of a commit: "Listing: <title>" or any other text
ListingMessage(title) == [listing |-> TRUE, text |-> title]
OtherMessage(text) == [listing |-> FALSE, text |-> text]

\* git.log(): newest commit first; the hash stands for the place in the history
GitLog(history) ==
    Reverse([i \in DOMAIN history |-> [hash |-> i, message |-> history[i].message]])

\* a range of a hunk header as git prints it: the count is left out when it is 1
GitRange(start, count) == IF count = 1 THEN <<start>> ELSE <<start, count>>

\* the lines of `git show --unified=0 <hash>` the reader looks at
GitShowFile(f) ==
    <<[k |-> "diff", path |-> f.path, m1 |-> <<>>, m2 |-> <<>>]>> \o
    [i \in DOMAIN f.hunks |->
        [k |-> "hunk", path |-> "",
         m1 |-> GitRange(f.hunks[i].oldStart, f.hunks[i].oldCount),
         m2 |-> GitRange(f.hunks[i].newStart, f.hunks[i].newCount)]]

GitShow(history, hash) ==
    LET files == history[hash].files
    IN Flatten([i \in DOMAIN files |-> GitShowFile(files[i])])

\* `git show <hash>:<path>`
GitShowBlob(history, hash, path) ==
    LET files == history[hash].files
        i == CHOOSE j \in DOMAIN files : files[j].path = path
    IN files[i].content

-----------------------------------------------------------------------------
(* scripts/import-code.mjs: getGitCommits *)

NoFile == "null"

\* one line of console output
Out(msg, a, b) == [msg |-> msg, a |-> a, b |-> b]

\* an omitted count taken as 0
ParseDiffRange_ZeroDefault(line) ==
    [start1 |-> line.m1[1],
     count1 |-> IF Len(line.m1) > 1 THEN line.m1[2] ELSE 0,
     start2 |-> line.m2[1],
     count2 |-> IF Len(line.m2) > 1 THEN line.m2[2] ELSE 0]

\* "Parse diffRanges": the counts default to 1
ParseDiffRange(line) ==
    [start1 |-> line.m1[1],
     count1 |-> IF Len(line.m1) > 1 THEN line.m1[2] ELSE 1,
     start2 |-> line.m2[1],
     count2 |-> IF Len(line.m2) > 1 THEN line.m2[2] ELSE 1]

\* "Parse filename": the first diff header wins, a later one is only printed
RECURSIVE ParseFilename(_, _)
ParseFilename(lines, filename) ==
    IF lines = <<>> THEN filename
    ELSE LET line == Head(lines)
         IN ParseFilename(Tail(lines),
                IF line.k = "diff" /\ filename = NoFile THEN line.path ELSE filename)

RECURSIVE MoreThanOneFile(_, _, _)
MoreThanOneFile(lines, filename, title) ==
    IF lines = <<>> THEN <<>>
    ELSE LET line == Head(lines)
         IN IF line.k = "diff" /\ filename # NoFile
            THEN <<Out("Error: more than one file found in a listing commit", title, ""),
                   Out(" file 1:", filename, ""),
                   Out(" file 2:", line.path, "")>>
                 \o MoreThanOneFile(Tail(lines), filename, title)
            ELSE MoreThanOneFile(Tail(lines),
                    IF line.k = "diff" THEN line.path ELSE filename, title)

ParseDiffRanges(lines) ==
    LET hs == SelectSeq(lines, LAMBDA l : l.k = "hunk")
    IN [i \in DOMAIN hs |-> ParseDiffRange(hs[i])]

\* a reader that keeps the content as git prints it
TrimLastNewline_Keep(code) == code

\* "Trim the last newline"
TrimLastNewline(code) ==
    IF Len(code) >= 2 /\ code[Len(code)] = ""
    THEN SubSeq(code, 1, Len(code) - 1)
    ELSE code

\* the body of the loop over the log entries, for an entry that matches
ParseCommit(history, log) ==
    LET lines    == GitShow(history, log.hash)
        filename == ParseFilename(lines, NoFile)
    IN [message    |-> log.message.text,
        hash       |-> log.hash,
        filename   |-> filename,
        diffRanges |-> ParseDiffRanges(lines),
        code       |-> TrimLastNewline(GitShowBlob(history, log.hash, filename))]

\* every log entry taken, whatever its message
ListingLogEntries_All(history) == Reverse(GitLog(history))

\* the log entries the reader goes through: oldest first, /^Listing: (.*)/ only
ListingLogEntries(history) ==
    SelectSeq(Reverse(GitLog(history)), LAMBDA log : log.message.listing)

getGitCommits(history) ==
    LET logEntries == ListingLogEntries(history)
    IN [i \in DOMAIN logEntries |-> ParseCommit(history, logEntries[i])]

\* what getGitCommits prints
getGitCommitsOutput(history) ==
    LET logEntries == ListingLogEntries(history)
    IN Flatten([i \in DOMAIN logEntries |->
            MoreThanOneFile(GitShow(history, logEntries[i].hash), NoFile,
                            logEntries[i].message.text)])

-----------------------------------------------------------------------------
(* scripts/import-code.mjs: importCodeFromGitToMdx, the cross-reference *)

\* main(): importSpecs, the languages in the order they are imported
importSpecs == <<"rust", "cpp">>

\* the keys of an object filled by obj[key] = ..., in for-in order
RECURSIVE Keys(_)
Keys(titles) ==
    IF titles = <<>> THEN <<>>
    ELSE LET rest == Keys(SubSeq(titles, 1, Len(titles) - 1))
             t    == titles[Len(titles)]
         IN IF t \in Range(rest) THEN rest ELSE Append(rest, t)

\* obj[key(e)] = e for the elements of a sequence in order: the last one stays
\* (keys[i] is the key of entries[i])
LastWith(entries, keys, t) ==
    entries[CHOOSE i \in DOMAIN entries :
                /\ keys[i] = t
                /\ \A j \in DOMAIN entries : keys[j] = t => j <= i]

CommitTitle(commit) == commit.message
ListingTitle(listing) == listing.title

\* the map that keeps the first commit of a title
TitleToGitCommit_First(commits) ==
    [t \in {commits[i].message : i \in DOMAIN commits} |->
        commits[CHOOSE i \in DOMAIN commits :
                    /\ commits[i].message = t
                    /\ \A j \in DOMAIN commits : commits[j].message = t => i <= j]]

TitleToGitCommit(commits) ==
    [t \in {commits[i].message : i \in DOMAIN commits} |->
        LastWith(commits, [i \in DOMAIN commits |-> CommitTitle(commits[i])], t)]

TitleToMdxListing(listings) ==
    [t \in {listings[i].title : i \in DOMAIN listings} |->
        LastWith(listings, [i \in DOMAIN listings |-> ListingTitle(listings[i])], t)]

GitTitleKeys(commits) == Keys([i \in DOMAIN commits |-> commits[i].message])
MdxTitleKeys(listings) == Keys([i \in DOMAIN listings |-> listings[i].title])

\* "Checking missing code", first loop
MdxMissing(commits, listings) ==
    LET keys == SelectSeq(GitTitleKeys(commits),
                    LAMBDA t : t \notin DOMAIN TitleToMdxListing(listings))
    IN [i \in DOMAIN keys |-> Out("Error: mdx missing:", keys[i], "")]

\* "Checking missing code", second loop
GitMissing(commits, listings) ==
    LET keys == SelectSeq(MdxTitleKeys(listings),
                    LAMBDA t : t \notin DOMAIN TitleToGitCommit(commits))
    IN [i \in DOMAIN keys |-> Out("Error: git missing:", keys[i], "")]

\* "Find inconsistent filenames"
FilenameDiffers(gitCommit, mdxListing) ==
    gitCommit.filename # "src/" \o mdxListing.filename

\* the filename check left out
InconsistentFilenames_Skipped(commits, listings) == <<>>

InconsistentFilenames(commits, listings) ==
    LET git  == TitleToGitCommit(commits)
        mdx  == TitleToMdxListing(listings)
        keys == SelectSeq(GitTitleKeys(commits),
                    LAMBDA t : t \in DOMAIN mdx /\ FilenameDiffers(git[t], mdx[t]))
    IN [i \in DOMAIN keys |->
            Out("Error: inconsistent filename:", git[keys[i]].filename,
                mdx[keys[i]].filename)]

\* the check stopped at the first violation
CrossReferenceErrors_FirstOnly(commits, listings) ==
    LET all == MdxMissing(commits, listings) \o GitMissing(commits, listings)
                  \o InconsistentFilenames(commits, listings)
    IN IF all = <<>> THEN <<>> ELSE <<Head(all)>>

\* everything that sets hasError, in the order it is printed
CrossReferenceErrors(commits, listings) ==
    MdxMissing(commits, listings) \o GitMissing(commits, listings)
        \o InconsistentFilenames(commits, listings)

-----------------------------------------------------------------------------
(* scripts/import-code.mjs: importCodeFromGitToMdx, the visitor of a code node *)

\* lineMap.get(n) == ""
LineIsBlank(code, n) == n \in DOMAIN code /\ code[n] = ""

\* the shift decided on the line after the range
ShiftRange_AfterEnd(code, hiStart, hiEnd) ==
    /\ LineIsBlank(code, hiEnd + 1)
    /\ hiStart # 1
    /\ LineIsBlank(code, hiStart - 1)

\* the shift decided on the line before the range alone
ShiftRange_IgnoreEnd(code, hiStart, hiEnd) ==
    hiStart # 1 /\ LineIsBlank(code, hiStart - 1)

\* "Check if possible to shift the range"
ShiftRange(code, hiStart, hiEnd) ==
    /\ LineIsBlank(code, hiEnd)
    /\ hiStart # 1
    /\ LineIsBlank(code, hiStart - 1)

\* the range moved back by two lines
HiPiece_ShiftByTwo(diffRange, code) ==
    IF diffRange.count2 = 1
    THEN <<Ch(ToString(diffRange.start2))>>
    ELSE LET hiStart == diffRange.start2
             hiEnd   == diffRange.start2 + diffRange.count2 - 1
             shift   == IF ShiftRange(code, hiStart, hiEnd) THEN 2 ELSE 0
         IN <<Ch(ToString(hiStart - shift)), Ch("-"), Ch(ToString(hiEnd - shift))>>

\* the text one diff range with count2 # 0 adds to hiStr
HiPiece(diffRange, code) ==
    IF diffRange.count2 = 1
    THEN <<Ch(ToString(diffRange.start2))>>
    ELSE LET hiStart == diffRange.start2
             hiEnd   == diffRange.start2 + diffRange.count2 - 1
             shift   == IF ShiftRange(code, hiStart, hiEnd) THEN 1 ELSE 0
         IN <<Ch(ToString(hiStart - shift)), Ch("-"), Ch(ToString(hiEnd - shift))>>

\* the loop without `if (diffRange.count2 == 0) continue`
HiPieces_NoFilter(diffRanges, code, first) ==
    Flatten([i \in DOMAIN diffRanges |->
        (IF i = 1 THEN <<>> ELSE <<Ch(",")>>) \o HiPiece(diffRanges[i], code)])

\* the loop over commit.diffRanges
RECURSIVE HiPieces(_, _, _)
HiPieces(diffRanges, code, first) ==
    IF diffRanges = <<>> THEN <<>>
    ELSE LET diffRange == Head(diffRanges)
         IN IF diffRange.count2 = 0
            THEN HiPieces(Tail(diffRanges), code, first)
            ELSE (IF first THEN <<>> ELSE <<Ch(",")>>)
                 \o HiPiece(diffRange, code)
                 \o HiPieces(Tail(diffRanges), code, FALSE)

\* "Build highlight string"
BuildHiStr(commit) ==
    <<Ch("{")>> \o HiPieces(commit.diffRanges, commit.code, TRUE) \o <<Ch("}")>>

\* /{.*}/ : from the first "{" that has a "}" after it to the last "}"
BraceMatch(meta) ==
    LET opens  == {i \in DOMAIN meta :
                     meta[i] = Ch("{") /\ \E j \in DOMAIN meta : j > i /\ meta[j] = Ch("}")}
        closes == {j \in DOMAIN meta : meta[j] = Ch("}")}
    IN IF opens = {} THEN <<>>
       ELSE <<CHOOSE i \in opens : \A k \in opens : i <= k,
              CHOOSE j \in closes : \A k \in closes : k <= j>>

RECURSIVE TrimEnd(_)
TrimEnd(meta) ==
    IF meta # <<>> /\ meta[Len(meta)] = SP
    THEN TrimEnd(SubSeq(meta, 1, Len(meta) - 1))
    ELSE meta

\* an update that leaves an annotation with braces alone
updateHiStrInMdxNodeMeta_KeepExplicit(hiStr, meta) ==
    IF BraceMatch(meta) # <<>> THEN meta ELSE TrimEnd(meta) \o <<SP>> \o hiStr

\* "Replace the original string": the new node.meta
updateHiStrInMdxNodeMeta(hiStr, meta) ==
    LET m == BraceMatch(meta)
    IN IF m # <<>>
       THEN SubSeq(meta, 1, m[1] - 1) \o hiStr \o SubSeq(meta, m[2] + 1, Len(meta))
       ELSE TrimEnd(meta) \o <<SP>> \o hiStr

\* meta?.title in titleToGitCommit && meta.lang == lang
\* the match on the title alone
NodeMatches_AnyLang(node, lang, titleToGitCommit) ==
    parseMdAstNodeMeta(node).title \in DOMAIN titleToGitCommit

NodeMatches(node, lang, titleToGitCommit) ==
    /\ parseMdAstNodeMeta(node).title \in DOMAIN titleToGitCommit
    /\ node.lang = lang

\* the visitor with the code left as it is
VisitCodeNode_KeepValue(node, lang, titleToGitCommit) ==
    IF NodeMatches(node, lang, titleToGitCommit)
    THEN LET commit == titleToGitCommit[parseMdAstNodeMeta(node).title]
         IN [lang  |-> node.lang,
             meta  |-> updateHiStrInMdxNodeMeta(BuildHiStr(commit), node.meta),
             value |-> node.value]
    ELSE node

\* the visitor: the node after the visit
VisitCodeNode(node, lang, titleToGitCommit) ==
    IF NodeMatches(node, lang, titleToGitCommit)
    THEN LET commit == titleToGitCommit[parseMdAstNodeMeta(node).title]
         IN [lang  |-> node.lang,
             meta  |-> updateHiStrInMdxNodeMeta(BuildHiStr(commit), node.meta),
             value |-> commit.code]
    ELSE node

\* the visitor: what it prints
VisitOutput(node, lang, titleToGitCommit) ==
    IF NodeMatches(node, lang, titleToGitCommit)
    THEN LET commit == titleToGitCommit[parseMdAstNodeMeta(node).title]
             after  == VisitCodeNode(node, lang, titleToGitCommit)
         IN (IF node.value # commit.code
             THEN <<Out("Replacing code: ", commit.message, "")>> ELSE <<>>)
            \o (IF after.meta # node.meta
                THEN <<Out("new meta: ", commit.message, "")>> ELSE <<>>)
    ELSE <<>>

\* the unified() pipeline over one document: parse, visit every code node, stringify
ProcessDocument(nodes, lang, titleToGitCommit) ==
    [i \in DOMAIN nodes |-> VisitCodeNode(nodes[i], lang, titleToGitCommit)]

ProcessOutput(nodes, lang, titleToGitCommit) ==
    Flatten([i \in DOMAIN nodes |-> VisitOutput(nodes[i], lang, titleToGitCommit)])

-----------------------------------------------------------------------------
(* scripts/import-code.mjs: the run of the script, main() *)

Lang == importSpecs[langIdx]

\* const mdxListingsByLang = getMdxListingsByLang()
ImportStart ==
    /\ ipc = "start"
    /\ mdxListingsByLang' = getMdxListingsByLang(pages)
    /\ ipc' = "commits"
    /\ UNCHANGED <<pages, repo, langIdx, gitCommits, fileIdx, console, writes, pages0>>
    /\ UNCHANGED exportVars

\* const gitCommits = await getGitCommits(gitRepoPath)
ImportGetGitCommits ==
    /\ ipc = "commits"
    /\ gitCommits' = getGitCommits(repo[Lang])
    /\ console' = console \o getGitCommitsOutput(repo[Lang])
    /\ ipc' = "check"
    /\ UNCHANGED <<pages, repo, langIdx, mdxListingsByLang, fileIdx, writes, pages0>>
    /\ UNCHANGED exportVars

\* the checks with `continue` in the place of `return`: the next language is imported
ImportCrossReference_NextLang ==
    /\ ipc = "check"
    /\ IF Lang \notin DOMAIN mdxListingsByLang
       THEN /\ ipc' = "crashed"
            /\ console' = Append(console, Out("TypeError", Lang, ""))
            /\ langIdx' = langIdx
       ELSE LET errors == CrossReferenceErrors(gitCommits, mdxListingsByLang[Lang])
            IN IF errors # <<>>
               THEN /\ console' = console \o errors
                                    \o <<Out("Error: aborting because of errors", "", "")>>
                    /\ IF langIdx < Len(importSpecs)
                       THEN langIdx' = langIdx + 1 /\ ipc' = "commits"
                       ELSE langIdx' = langIdx /\ ipc' = "done"
               ELSE /\ ipc' = "rewrite"
                    /\ console' = console
                    /\ langIdx' = langIdx
    /\ fileIdx' = 1
    /\ UNCHANGED <<pages, repo, mdxListingsByLang, gitCommits, writes, pages0>>
    /\ UNCHANGED exportVars

\* the two maps, the three checks and `if (hasError) return`.
\* `for (const listing of mdxListingsByLang[lang])` throws a TypeError when no
\* document holds a listing of the language: the promise of main() is rejected.
ImportCrossReference ==
    /\ ipc = "check"
    /\ IF Lang \notin DOMAIN mdxListingsByLang
       THEN /\ ipc' = "crashed"
            /\ console' = Append(console, Out("TypeError", Lang, ""))
       ELSE LET errors == CrossReferenceErrors(gitCommits, mdxListingsByLang[Lang])
            IN IF errors # <<>>
               THEN /\ ipc' = "aborted"
                    /\ console' = console \o errors
                                    \o <<Out("Error: aborting because of errors", "", "")>>
               ELSE /\ ipc' = "rewrite"
                    /\ console' = console
    /\ fileIdx' = 1
    /\ UNCHANGED <<pages, repo, langIdx, mdxListingsByLang, gitCommits, writes, pages0>>
    /\ UNCHANGED exportVars

\* one turn of `for (const filename of mdxFilenames)`
ImportRewriteFile ==
    /\ ipc = "rewrite"
    /\ fileIdx <= Len(getSortedMdxFilenames(pages))
    /\ LET filename == getSortedMdxFilenames(pages)[fileIdx]
           git      == TitleToGitCommit(gitCommits)
       IN /\ pages' = [pages EXCEPT ![filename] = ProcessDocument(@, Lang, git)]
          /\ console' = console \o ProcessOutput(pages[filename], Lang, git)
          /\ writes' = Append(writes, [lang |-> Lang, filename |-> filename])
    /\ fileIdx' = fileIdx + 1
    /\ UNCHANGED <<repo, ipc, langIdx, mdxListingsByLang, gitCommits, pages0>>
    /\ UNCHANGED exportVars

\* console.log("Done!") and the next importSpec
ImportLangDone ==
    /\ ipc = "rewrite"
    /\ fileIdx > Len(getSortedMdxFilenames(pages))
    /\ console' = Append(console, Out("Done!", Lang, ""))
    /\ IF langIdx < Len(importSpecs)
       THEN langIdx' = langIdx + 1 /\ ipc' = "commits"
       ELSE langIdx' = langIdx /\ ipc' = "done"
    /\ UNCHANGED <<pages, repo, mdxListingsByLang, gitCommits, fileIdx, writes, pages0>>
    /\ UNCHANGED exportVars

Next ==
    \/ ImportStart
    \/ ImportGetGitCommits
    \/ ImportCrossReference
    \/ ImportRewriteFile
    \/ ImportLangDone

\* the script has not started
ImportInit ==
    /\ ipc = "start"
    /\ langIdx = 1
    /\ mdxListingsByLang = <<>>
    /\ gitCommits = <<>>
    /\ fileIdx = 1
    /\ console = <<>>
    /\ writes = <<>>
    /\ pages0 = pages

-----------------------------------------------------------------------------
(* scripts/export-code.mjs: the working copies under code/ and the tools   *)
(* the script runs in them.  A working copy is                             *)
(*   [log, head, tree, images]: the history (oldest commit first), the     *)
(* files of the last commit, the files on disk (path -> content) and the   *)
(* image files generated so far, in order.                                 *)

NoTree == [p \in {} |-> <<>>]

\* the lines of a file: "" is the empty file, a final newline ends the last line
FileLines(content) ==
    IF content = <<"">> THEN <<>>
    ELSE IF content[Len(content)] = "" THEN SubSeq(content, 1, Len(content) - 1)
    ELSE content

FileOfLines(lines) == IF lines = <<>> THEN <<"">> ELSE Append(lines, "")

\* a shortest edit script from a to b: "=" keep, "-" delete, "+" insert
RECURSIVE EditScript(_, _)
EditScript(a, b) ==
    IF a = <<>> THEN [i \in DOMAIN b |-> "+"]
    ELSE IF b = <<>> THEN [i \in DOMAIN a |-> "-"]
    ELSE IF Head(a) = Head(b) THEN <<"=">> \o EditScript(Tail(a), Tail(b))
    ELSE LET del == <<"-">> \o EditScript(Tail(a), b)
             ins == <<"+">> \o EditScript(a, Tail(b))
         IN IF Len(del) <= Len(ins) THEN del ELSE ins

\* the hunks of an edit script with no context lines (--unified=0): one hunk
\* per maximal run of deletions and insertions; `o` and `n` are the lines of
\* the old and the new file passed so far
RECURSIVE ScriptHunks(_, _, _)
ScriptHunks(script, o, n) ==
    IF script = <<>> THEN <<>>
    ELSE IF Head(script) = "=" THEN ScriptHunks(Tail(script), o + 1, n + 1)
    ELSE LET keeps == {i \in DOMAIN script : script[i] = "="}
             stop  == IF keeps = {} THEN Len(script) + 1
                      ELSE CHOOSE i \in keeps : \A j \in keeps : i <= j
             run   == SubSeq(script, 1, stop - 1)
             dels  == Len(SelectSeq(run, LAMBDA e : e = "-"))
             adds  == Len(SelectSeq(run, LAMBDA e : e = "+"))
         IN <<Hunk(IF dels = 0 THEN o ELSE o + 1, dels,
                   IF adds = 0 THEN n ELSE n + 1, adds)>>
            \o ScriptHunks(SubSeq(script, stop, Len(script)), o + dels, n + adds)

\* the hunks git shows for a file whose content goes from old to new
DiffHunks(old, new) == ScriptHunks(EditScript(FileLines(old), FileLines(new)), 0, 0)

\* the files git lists in a diff are ordered by path: ".gitignore" < "Cargo.toml"
\* < "Makefile" < "image<k>-..." < "src/..." (a counter stays below 10 here)
SourcePaths == <<"src/main.cpp", "src/main.rs", "src/vec3.rs">>
PathsInOrder(wc) == <<".gitignore", "Cargo.toml", "Makefile">> \o wc.images \o SourcePaths

\* the starter's .gitignore may list the generated images
Ignored(wc, path) ==
    /\ path \in Range(wc.images)
    /\ ".gitignore" \in DOMAIN wc.tree
    /\ "*.ppm" \in Range(wc.tree[".gitignore"])

\* git.add(".").commit(message): nothing is committed when nothing changed
GitAddCommit(wc, message) ==
    LET changed == SelectSeq(PathsInOrder(wc), LAMBDA p :
                      /\ p \in DOMAIN wc.tree
                      /\ ~Ignored(wc, p)
                      /\ (p \notin DOMAIN wc.head \/ wc.head[p] # wc.tree[p]))
        files   == [i \in DOMAIN changed |->
                      [path    |-> changed[i],
                       hunks   |-> DiffHunks(IF changed[i] \in DOMAIN wc.head
                                             THEN wc.head[changed[i]] ELSE <<"">>,
                                             wc.tree[changed[i]]),
                       content |-> wc.tree[changed[i]]]]
    IN IF changed = <<>> THEN wc
       ELSE [wc EXCEPT !.log  = Append(@, [message |-> message, files |-> files]),
                       !.head = [p \in DOMAIN wc.head \cup Range(changed) |->
                                    IF p \in Range(changed) THEN wc.tree[p] ELSE wc.head[p]]]

WriteFile(wc, path, content) ==
    [wc EXCEPT !.tree = [p \in DOMAIN wc.tree \cup {path} |->
                            IF p = path THEN content ELSE wc.tree[p]]]

\* git.clone(starter, lang), rm .git, git.init(), git.add(".").commit("Initial commit")
CloneStarter(tree) ==
    GitAddCommit([log |-> <<>>, head |-> NoTree, tree |-> tree, images |-> <<>>],
                 OtherMessage("Initial commit"))

\* `cargo add <dep>`: a line of Cargo.toml, added once
CargoAdd(wc, dep) ==
    LET lines == FileLines(wc.tree["Cargo.toml"])
    IN IF dep \in Range(lines) THEN wc
       ELSE WriteFile(wc, "Cargo.toml", FileOfLines(Append(lines, dep)))

\* `cargo +nightly fmt` and `clang-format -i src/*` rewrite the sources in a
\* canonical layout: the indentation is normalised, blank lines at the start
\* and at the end of a file are dropped, runs of blank lines become one line
TidyLine(line) == IF line = " x" THEN "x" ELSE line

RECURSIVE DropLeadingBlank(_)
DropLeadingBlank(lines) ==
    IF lines # <<>> /\ Head(lines) = "" THEN DropLeadingBlank(Tail(lines)) ELSE lines

RECURSIVE SqueezeBlank(_)
SqueezeBlank(lines) ==
    IF Len(lines) < 2 THEN lines
    ELSE IF lines[1] = "" /\ lines[2] = "" THEN SqueezeBlank(Tail(lines))
    ELSE <<Head(lines)>> \o SqueezeBlank(Tail(lines))

FormatFile(content) ==
    LET tidy == [i \in DOMAIN FileLines(content) |-> TidyLine(FileLines(content)[i])]
    IN FileOfLines(Reverse(DropLeadingBlank(Reverse(DropLeadingBlank(SqueezeBlank(tidy))))))

FormatSources(wc) ==
    [wc EXCEPT !.tree = [p \in DOMAIN wc.tree |->
                            IF p \in Range(SourcePaths) THEN FormatFile(wc.tree[p])
                            ELSE wc.tree[p]]]

\* slugify(title, {remove: /[*+~.()'"!:@]/g}): spaces become hyphens
Slugify(title) == IF title = "A B" THEN "A-B" ELSE title

\* `image${i}-${slug}.ppm`
ImageFilename(i, title) == "image" \o ToString(i) \o "-" \o Slugify(title) \o ".ppm"

\* `cargo run --release > <filename>` / `make run-release > <filename>`
RunToImage(wc, filename) ==
    [WriteFile(wc, filename, <<"P3", "">>) EXCEPT !.images = Append(@, filename)]

-----------------------------------------------------------------------------
(* scripts/export-code.mjs: exportCodeFromMdxToGit *)

\* `for (let lang in listingsByLang)`: the keys in the order they were added
RECURSIVE FirstSeen(_, _)
FirstSeen(listings, seen) ==
    IF listings = <<>> THEN <<>>
    ELSE IF Head(listings).lang \in seen THEN FirstSeen(Tail(listings), seen)
    ELSE <<Head(listings).lang>> \o FirstSeen(Tail(listings), seen \cup {Head(listings).lang})

ExportLangs == FirstSeen(AllListings(pages), {})
ExportLang == ExportLangs[eLangIdx]
ExportListing == listingsByLang[ExportLang][eIdx]

\* a property of a listing: undefined (falsy) unless the extractor set it
ListingFlag(listing, flag) == flag \in DOMAIN listing /\ listing[flag]

\* the build decided by the listing's flags alone
BuildWanted_ListingOnly(listing) ==
    \/ ListingFlag(listing, "checkCompile")
    \/ ListingFlag(listing, "genImage")
    \/ ListingFlag(listing, "genLargeImage")

\* (opts.checkCompile || opts.genImage || opts.genLargeImage) &&
\* (listing.checkCompile || listing.genImage || listing.genLargeImage)
BuildWanted(listing) ==
    /\ opts.checkCompile \/ opts.genImage \/ opts.genLargeImage
    /\ \/ ListingFlag(listing, "checkCompile")
       \/ ListingFlag(listing, "genImage")
       \/ ListingFlag(listing, "genLargeImage")

\* (opts.genImage && listing.genImage) || (opts.genLargeImage && listing.genLargeImage)
ImageWanted(listing) ==
    \/ opts.genImage /\ ListingFlag(listing, "genImage")
    \/ opts.genLargeImage /\ ListingFlag(listing, "genLargeImage")

\* the commit taken before the formatter runs
ExportSteps_CommitFirst == <<"dep", "write", "commit", "format", "build", "image">>

ExportSteps == <<"dep", "write", "format", "commit", "build", "image">>
StepNo(step) == CHOOSE i \in DOMAIN ExportSteps : ExportSteps[i] = step

StepWanted(step, listing) ==
    CASE step = "dep"   -> listing.addCargoDep # ""
      [] step = "build" -> BuildWanted(listing)
      [] step = "image" -> ImageWanted(listing)
      [] OTHER          -> TRUE

\* where the script is after `step` of the listing at (l, i): the next step
\* of the body that applies, else the next listing, the next language, the end
RECURSIVE ExportAfter(_, _, _)
ExportAfter(l, i, n) ==
    IF n < Len(ExportSteps)
    THEN IF StepWanted(ExportSteps[n + 1], listingsByLang[ExportLangs[l]][i])
         THEN [epc |-> ExportSteps[n + 1], l |-> l, i |-> i]
         ELSE ExportAfter(l, i, n + 1)
    ELSE IF i < Len(listingsByLang[ExportLangs[l]]) THEN ExportAfter(l, i + 1, 0)
    ELSE IF l < Len(ExportLangs) THEN [epc |-> "clone", l |-> l + 1, i |-> 1]
    ELSE [epc |-> "done", l |-> l, i |-> i]

\* the script goes on after `step`
ExportGoOn(step) ==
    LET to == ExportAfter(eLangIdx, eIdx, StepNo(step))
    IN /\ epc' = to.epc
       /\ eLangIdx' = to.l
       /\ eIdx' = to.i
       /\ imageNo' = IF step = "image" THEN imageNo + 1
                     ELSE IF to.epc = "clone" THEN 1 ELSE imageNo

\* the failure is swallowed and the loop goes on with the next listing
ExportFail_NextListing ==
    LET to == ExportAfter(eLangIdx, eIdx, Len(ExportSteps))
    IN /\ epc' = to.epc
       /\ eLangIdx' = to.l
       /\ eIdx' = to.i
       /\ imageNo' = imageNo

\* execSync threw: the promise of main() is rejected and the process ends
ExportFail ==
    /\ epc' = "failed"
    /\ UNCHANGED <<eLangIdx, eIdx, imageNo>>

Logged(step) == [lang |-> ExportLang, title |-> ExportListing.title, step |-> step]

\* getMdxListingsByLang(), rmSync and mkdirSync of the export folder
ExportStart ==
    /\ epc = "start"
    /\ listingsByLang' = getMdxListingsByLang(pages)
    /\ exportFolder' = <<>>
    /\ epc' = IF ExportLangs = <<>> THEN "done" ELSE "clone"
    /\ eLangIdx' = 1
    /\ eIdx' = 1
    /\ imageNo' = 1
    /\ UNCHANGED <<opts, starter, elog>>
    /\ UNCHANGED importVars

\* the head of the loop over the languages, up to `let i = 1`
ExportClone ==
    /\ epc = "clone"
    /\ exportFolder' = [l \in DOMAIN exportFolder \cup {ExportLang} |->
                   IF l = ExportLang THEN CloneStarter(starter[l]) ELSE exportFolder[l]]
    /\ LET to == ExportAfter(eLangIdx, 1, 0)
       IN epc' = to.epc /\ eLangIdx' = to.l /\ eIdx' = to.i
    /\ imageNo' = 1
    /\ UNCHANGED <<opts, starter, listingsByLang, elog>>
    /\ UNCHANGED importVars

\* cargo add and the commit `Add <dep> to Cargo`
ExportAddCargoDep ==
    /\ epc = "dep"
    /\ \E ok \in BOOLEAN :
          IF ok /\ "Cargo.toml" \in DOMAIN exportFolder[ExportLang].tree
          THEN /\ exportFolder' = [exportFolder EXCEPT ![ExportLang] =
                             GitAddCommit(CargoAdd(@, ExportListing.addCargoDep),
                                          OtherMessage("Add " \o ExportListing.addCargoDep
                                                       \o " to Cargo"))]
               /\ elog' = Append(elog, Logged("dep"))
               /\ ExportGoOn("dep")
          ELSE /\ ExportFail
               /\ UNCHANGED <<exportFolder, elog>>
    /\ UNCHANGED <<opts, starter, listingsByLang>>
    /\ UNCHANGED importVars

\* the write without the "\n"
ExportWriteCode_NoNewline ==
    /\ epc = "write"
    /\ exportFolder' = [exportFolder EXCEPT ![ExportLang] =
                   WriteFile(@, "src/" \o ExportListing.filename, ExportListing.code)]
    /\ elog' = Append(elog, Logged("write"))
    /\ ExportGoOn("write")
    /\ UNCHANGED <<opts, starter, listingsByLang>>
    /\ UNCHANGED importVars

\* fs.writeFileSync(base + "/src/" + listing.filename, listing.code + "\n")
ExportWriteCode ==
    /\ epc = "write"
    /\ exportFolder' = [exportFolder EXCEPT ![ExportLang] =
                   WriteFile(@, "src/" \o ExportListing.filename,
                             Append(ExportListing.code, ""))]
    /\ elog' = Append(elog, Logged("write"))
    /\ ExportGoOn("write")
    /\ UNCHANGED <<opts, starter, listingsByLang>>
    /\ UNCHANGED importVars

\* cargo +nightly fmt / clang-format -i src/*
ExportFormat ==
    /\ epc = "format"
    /\ \E ok \in BOOLEAN :
          IF ok
          THEN /\ exportFolder' = [exportFolder EXCEPT ![ExportLang] = FormatSources(@)]
               /\ elog' = Append(elog, Logged("format"))
               /\ ExportGoOn("format")
          ELSE /\ ExportFail
               /\ UNCHANGED <<exportFolder, elog>>
    /\ UNCHANGED <<opts, starter, listingsByLang>>
    /\ UNCHANGED importVars

\* git.add(".").commit(`Listing: ${listing.title}`)
ExportCommit ==
    /\ epc = "commit"
    /\ exportFolder' = [exportFolder EXCEPT ![ExportLang] =
                   GitAddCommit(@, ListingMessage(ExportListing.title))]
    /\ elog' = Append(elog, Logged("commit"))
    /\ ExportGoOn("commit")
    /\ UNCHANGED <<opts, starter, listingsByLang>>
    /\ UNCHANGED importVars

\* cargo build --release / make clean; make build-release
ExportBuild ==
    /\ epc = "build"
    /\ \E ok \in BOOLEAN :
          IF ok
          THEN /\ elog' = Append(elog, Logged("build"))
               /\ ExportGoOn("build")
          ELSE /\ ExportFail
               /\ UNCHANGED elog
    /\ UNCHANGED <<opts, starter, listingsByLang, exportFolder>>
    /\ UNCHANGED importVars

\* cargo run --release > filename / make run-release > filename, ++i
ExportImage ==
    /\ epc = "image"
    /\ \E ok \in BOOLEAN :
          IF ok
          THEN /\ exportFolder' = [exportFolder EXCEPT ![ExportLang] =
                             RunToImage(@, ImageFilename(imageNo, ExportListing.title))]
               /\ elog' = Append(elog, Logged("image"))
               /\ ExportGoOn("image")
          ELSE /\ ExportFail
               /\ UNCHANGED <<exportFolder, elog>>
    /\ UNCHANGED <<opts, starter, listingsByLang>>
    /\ UNCHANGED importVars

ExportNext ==
    \/ ExportStart
    \/ ExportClone
    \/ ExportAddCargoDep
    \/ ExportWriteCode
    \/ ExportFormat
    \/ ExportCommit
    \/ ExportBuild
    \/ ExportImage

\* the export script has not started
ExportInit ==
    /\ epc = "start"
    /\ listingsByLang = <<>>
    /\ exportFolder = <<>>
    /\ eLangIdx = 1
    /\ eIdx = 1
    /\ imageNo = 1
    /\ elog = <<>>

NoOpts == [checkCompile |-> FALSE, genImage |-> FALSE, genLargeImage |-> FALSE]

\* the starter repositories of the two languages
StarterTree(lang, ignore) ==
    (".gitignore" :> <<ignore, "">>)
    @@ (IF lang = "rust" THEN "Cargo.toml" :> <<"[dependencies]", "">>
                         ELSE "Makefile" :> <<"all:", "">>)

\* the export script is not run
ExportIdle ==
    /\ epc = "idle"
    /\ opts = NoOpts
    /\ starter = [l \in ALLOW_LANGS |-> StarterTree(l, "target")]
    /\ listingsByLang = <<>>
    /\ exportFolder = <<>>
    /\ eLangIdx = 1
    /\ eIdx = 1
    /\ imageNo = 1
    /\ elog = <<>>

\* the import is run on the exported repositories: code/<lang> is what
\* ../../ray-tracing-impl-<lang> holds when import-code.mjs starts
ImportFromExport ==
    /\ epc = "done"
    /\ ipc = "idle"
    /\ repo' = [l \in ALLOW_LANGS |-> IF l \in DOMAIN exportFolder THEN exportFolder[l].log ELSE <<>>]
    /\ ipc' = "start"
    /\ UNCHANGED <<pages, langIdx, mdxListingsByLang, gitCommits, fileIdx, console,
                   writes, pages0>>
    /\ UNCHANGED exportVars

NextRT ==
    \/ ExportNext
    \/ ImportFromExport
    \/ Next

-----------------------------------------------------------------------------
(* The documents and histories the import is run on *)

\* a one-line file added by the commit
NewFile(path) ==
    [path |-> "src/" \o path, hunks |-> <<Hunk(0, 0, 1, 1)>>, content |-> <<"x", "">>]

ListingCommit(title, paths) ==
    [message |-> ListingMessage(title),
     files   |-> [i \in DOMAIN paths |-> NewFile(paths[i])]]

InitialCommit ==
    [message |-> OtherMessage("Initial commit"),
     files   |-> <<[path |-> "Makefile", hunks |-> <<Hunk(0, 0, 1, 1)>>,
                    content |-> <<"all:", "">>]>>]

ListingNode(lang, path, title, rest, value) ==
    [lang |-> lang, meta |-> <<FilenameTok(path, title)>> \o rest, value |-> value]

\* ```rust with no annotation
PlainNode == [lang |-> "rust", meta |-> <<>>, value |-> <<"x">>]

RangeOne == <<SP, Ch("{"), Ch("1"), Ch("}")>>

\* Cross-reference scenarios: titles and filenames vary on both sides
GateNodes ==
    {ListingNode("rust", "main.rs", "A", RangeOne, <<"x">>),
     ListingNode("rust", "vec3.rs", "A", RangeOne, <<"x">>),
     ListingNode("rust", "main.rs", "B", RangeOne, <<"x">>),
     ListingNode("cpp", "main.cpp", "A", RangeOne, <<"x">>),
     PlainNode}

GateCommits ==
    {ListingCommit("A", <<"main.rs">>),
     ListingCommit("A", <<"vec3.rs">>),
     ListingCommit("A", <<"main.rs", "vec3.rs">>),
     ListingCommit("B", <<"main.rs">>),
     InitialCommit}

CppHistories == {<<>>, <<InitialCommit, ListingCommit("A", <<"main.cpp">>)>>}

\* the second document: empty, a second listing titled A, or a cpp listing
SecondDocs ==
    {<<>>,
     <<ListingNode("rust", "main.rs", "A", RangeOne, <<"x">>)>>,
     <<ListingNode("cpp", "main.cpp", "A", RangeOne, <<"x">>)>>}

Init ==
    /\ \E d1 \in SeqsUpTo(GateNodes, MaxNodes), d2 \in SecondDocs :
            pages = (DocName("", 1) :> d1) @@ (DocName("", 2) :> d2)
    /\ \E r \in SeqsUpTo(GateCommits, MaxCommits), c \in CppHistories :
            repo = [rust |-> r, cpp |-> c]
    /\ ImportInit
    /\ ExportIdle

Spec == Init /\ [][Next]_vars

\* Highlight scenarios: one rust listing A in main.rs; the commit 'Listing: A'
\* holds a file of up to MaxLines lines, blank or not, and up to MaxHunks hunks
CodesUpTo(n) == UNION {[1..k -> {"", "x"}] : k \in 1..n}

\* the hunks `git show --unified=0` can print for a file of n lines: an
\* addition or change lies within the file, a pure deletion (newCount 0)
\* names the line it follows
HunkPool(n) ==
    {Hunk(s, 0, s, c) : s \in 1..n, c \in 1..n} \cup {Hunk(s + 1, 1, s, 0) : s \in 0..n}

\* the last line at or before a hunk, the first line at or after it
HunkLast(h) == IF h.newCount > 0 THEN h.newStart + h.newCount - 1 ELSE h.newStart
HunkFirst(h) == IF h.newCount > 0 THEN h.newStart ELSE h.newStart + 1

\* hunks ascend and an unchanged line lies between two of them
HunkLists(n) ==
    {hs \in SeqsUpTo(HunkPool(n), MaxHunks) :
        /\ \A i \in DOMAIN hs : HunkLast(hs[i]) <= n
        /\ \A i, j \in DOMAIN hs : i < j => HunkLast(hs[i]) + 2 <= HunkFirst(hs[j])}

CommitOf(title, path, code, hunks) ==
    [message |-> ListingMessage(title),
     files   |-> <<[path |-> "src/" \o path, hunks |-> hunks,
                    content |-> Append(code, "")]>>]

\* the example of the specification: ten lines, hunks +2,1 and +9,2
TenLines == [i \in 1..10 |-> "x"]
ExampleHunks == <<Hunk(1, 0, 2, 1), Hunk(8, 0, 9, 2)>>

\* files of fifteen lines in which line 11 is blank and lines 10, 14 and 15
\* are blank or not, with the hunk +11,4
FifteenLines ==
    {[i \in 1..15 |-> CASE i = 10 -> l10 [] i = 11 -> "" [] i = 14 -> l14
                         [] i = 15 -> l15 [] OTHER -> "x"] :
        l10 \in {"", "x"}, l14 \in {"", "x"}, l15 \in {"", "x"}}
FifteenHunks == <<Hunk(10, 0, 11, 4)>>

InitHi ==
    /\ pages = (DocName("", 1) :> <<ListingNode("rust", "main.rs", "A", RangeOne, <<"x">>)>>)
            @@ (DocName("", 2) :> <<ListingNode("cpp", "main.cpp", "A", RangeOne, <<"x">>)>>)
    /\ \E code \in CodesUpTo(MaxLines) \cup {TenLines} \cup FifteenLines :
         \E hs \in (IF code = TenLines THEN {ExampleHunks}
                    ELSE IF code \in FifteenLines THEN {FifteenHunks}
                    ELSE HunkLists(Len(code))) :
            repo = [rust |-> <<InitialCommit, CommitOf("A", "main.rs", code, hs)>>,
                    cpp  |-> <<InitialCommit, ListingCommit("A", <<"main.cpp">>)>>]
    /\ ImportInit
    /\ ExportIdle

SpecHi == InitHi /\ [][Next]_vars

\* Annotation scenarios: the annotation of the rust listing A is the filename
\* token followed by up to MaxTokens further tokens, with or without a
\* trailing space
RangeToken(inner) == <<Ch("{")>> \o inner \o <<Ch("}")>>

MetaTokens ==
    {RangeToken(<<Ch("1")>>),
     RangeToken(<<Ch("1"), Ch("-"), Ch("2")>>),
     <<Ch("genImage")>>,
     <<AddCargoDepTok("rand")>>,
     <<Ch("showLineNumbers")>> \o RangeToken(<<Ch("5")>>)}

RECURSIVE JoinTokens(_)
JoinTokens(tokens) ==
    IF tokens = <<>> THEN <<>> ELSE <<SP>> \o Head(tokens) \o JoinTokens(Tail(tokens))

MetaRests ==
    {JoinTokens(ts) \o tail : ts \in SeqsUpTo(MetaTokens, MaxTokens), tail \in {<<>>, <<SP>>}}

MetaHunks == {<<>>, <<Hunk(0, 0, 1, 1)>>, <<Hunk(0, 0, 1, 2)>>, <<Hunk(1, 1, 1, 1), Hunk(2, 1, 2, 0)>>}

InitMeta ==
    /\ \E rest \in MetaRests :
         pages = (DocName("", 1) :> <<ListingNode("rust", "main.rs", "A", rest, <<"x">>)>>)
              @@ (DocName("", 2) :> <<ListingNode("cpp", "main.cpp", "A", RangeOne, <<"x">>)>>)
    /\ \E hs \in MetaHunks :
         repo = [rust |-> <<InitialCommit, CommitOf("A", "main.rs", <<"x", "y">>, hs)>>,
                 cpp  |-> <<InitialCommit, ListingCommit("A", <<"main.cpp">>)>>]
    /\ ImportInit
    /\ ExportIdle

SpecMeta == InitMeta /\ [][Next]_vars

\* Token-order scenarios: the annotation of the rust listing is made of the
\* tokens filename="main.rs | A", addCargoDep="rand", genImage and {1}, some or
\* all of them with the filename token among them, in every order
OrderTokens ==
    <<<<FilenameTok("main.rs", "A")>>, <<AddCargoDepTok("rand")>>, <<Ch("genImage")>>,
      RangeToken(<<Ch("1")>>)>>

\* the tokens separated by one space
JoinWithSpaces(tokens) == IF tokens = <<>> THEN <<>> ELSE Tail(JoinTokens(tokens))

OrderMetas ==
    {JoinWithSpaces([i \in DOMAIN f |-> OrderTokens[f[i]]]) :
        f \in {g \in SeqsUpTo(DOMAIN OrderTokens, Len(OrderTokens)) :
                  /\ \E i \in DOMAIN g : g[i] = 1
                  /\ \A i, j \in DOMAIN g : i # j => g[i] # g[j]}}

InitOrder ==
    /\ \E meta \in OrderMetas :
         pages = (DocName("", 1) :> <<[lang |-> "rust", meta |-> meta, value |-> <<"x">>]>>)
              @@ (DocName("", 2) :> <<ListingNode("cpp", "main.cpp", "A", RangeOne, <<"x">>)>>)
    /\ repo = [rust |-> <<InitialCommit, ListingCommit("A", <<"main.rs">>)>>,
               cpp  |-> <<InitialCommit, ListingCommit("A", <<"main.cpp">>)>>]
    /\ ImportInit
    /\ ExportIdle

SpecOrder == InitOrder /\ [][Next]_vars

\* Export scenarios: documents whose listings are exported and imported back.
\* The codes differ in layout (" x" is "x" before formatting), the documents
\* in directory and chapter number.
ExportNodes ==
    {ListingNode("rust", "main.rs", "A", <<>>, <<"x">>),
     ListingNode("rust", "main.rs", "A", <<>>, <<" x">>),
     ListingNode("rust", "main.rs", "B", <<>>, <<"y", "">>),
     ListingNode("rust", "main.rs", "B", <<SP, Ch("genImage")>>, <<"x">>),
     ListingNode("rust", "vec3.rs", "A B",
                 <<SP, AddCargoDepTok("rand"), SP, Ch("genImage")>>, <<" x">>)}

\* the options of a run and what the starters' .gitignore lists
ExportRuns ==
    {<<NoOpts, "target">>,
     <<[NoOpts EXCEPT !.checkCompile = TRUE], "target">>,
     <<[NoOpts EXCEPT !.genImage = TRUE], "target">>,
     <<[NoOpts EXCEPT !.genImage = TRUE], "*.ppm">>,
     <<[NoOpts EXCEPT !.genLargeImage = TRUE], "*.ppm">>}

\* the second document: its name and its listings, a cpp listing alone or a
\* cpp listing and a rust listing
OtherDocs ==
    {<<DocName("", 1), <<ListingNode("cpp", "main.cpp", "A", <<SP, Ch("genImage")>>, <<" x">>),
                         ListingNode("rust", "main.rs", "C", <<>>, <<"y">>)>>>>,
     <<DocName("", 3), <<ListingNode("cpp", "main.cpp", "A", <<>>, <<"x">>)>>>>,
     <<DocName("extra/", 1), <<ListingNode("cpp", "main.cpp", "A", <<>>, <<"x">>),
                               ListingNode("rust", "main.rs", "C", <<>>, <<"y">>)>>>>}

InitRT ==
    /\ \E d \in SeqsUpTo(ExportNodes, MaxListings) \ {<<>>}, other \in OtherDocs :
            pages = (DocName("", 2) :> d) @@ (other[1] :> other[2])
    /\ repo = [l \in ALLOW_LANGS |-> <<>>]
    /\ \E run \in ExportRuns :
            /\ opts = run[1]
            /\ starter = [l \in ALLOW_LANGS |-> StarterTree(l, run[2])]
    /\ ExportInit
    /\ ipc = "idle"
    /\ langIdx = 1
    /\ mdxListingsByLang = <<>>
    /\ gitCommits = <<>>
    /\ fileIdx = 1
    /\ console = <<>>
    /\ writes = <<>>
    /\ pages0 = pages

SpecRT == InitRT /\ [][NextRT]_vars

-----------------------------------------------------------------------------
(* Vocabulary of the properties *)

Langs == Range(importSpecs)

\* the listings of a language in the documents as they are on disk
ListingsOf(lang) == SelectSeq(AllListings(pages), LAMBDA x : x.lang = lang)
DocTitles(lang) == {ListingsOf(lang)[i].title : i \in DOMAIN ListingsOf(lang)}

\* the 'Listing: <title>' commits of a language's history, oldest first
ListingCommitsOf(lang) == SelectSeq(repo[lang], LAMBDA c : c.message.listing)
CommitTitles(lang) ==
    {ListingCommitsOf(lang)[i].message.text : i \in DOMAIN ListingCommitsOf(lang)}

\* the import wrote a document while it imported the language
WritesFor(lang) == \E i \in DOMAIN writes : writes[i].lang = lang

\* the importer has decided whether to go on with the language it is at
Decided == ipc \in {"rewrite", "done", "aborted", "crashed"}
Proceeded == ipc \in {"rewrite", "done"}

\* every file of every commit is the destination of every listing of its title
FilenamesAgree(lang) ==
    \A i \in DOMAIN ListingsOf(lang), j \in DOMAIN ListingCommitsOf(lang) :
        LET l == ListingsOf(lang)[i]
            c == ListingCommitsOf(lang)[j]
        IN c.message.text = l.title =>
              \A f \in DOMAIN c.files : c.files[f].path = "src/" \o l.filename

\* C1: for one language, import writes no document when the titles of the
\* documents and the titles of the 'Listing:' commits differ, and it proceeds
\* to rewrite documents when the two sets are equal and every filename agrees.
C1_CrossReferenceGate ==
    \A lang \in Langs :
        /\ DocTitles(lang) # CommitTitles(lang) => ~WritesFor(lang)
        /\ (/\ DocTitles(lang) = CommitTitles(lang)
            /\ FilenamesAgree(lang)
            /\ Lang = lang
            /\ Decided)
           => Proceeded

\* the listing and the commit the importer's title-keyed maps hold for a title
\* of a language: the last listing and the last commit that carry it
LastListing(lang, title) ==
    LET ls == SelectSeq(ListingsOf(lang), LAMBDA l : l.title = title) IN ls[Len(ls)]
LastCommit(lang, title) ==
    LET cs == SelectSeq(ListingCommitsOf(lang), LAMBDA c : c.message.text = title)
    IN cs[Len(cs)]

\* the file path the reader records for a commit: that of its first diff header
RecordedPath(commit) == commit.files[1].path

FilenameMismatch(lang) ==
    \E title \in DocTitles(lang) \cap CommitTitles(lang) :
        RecordedPath(LastCommit(lang, title)) # "src/" \o LastListing(lang, title).filename

Printed(msg) == \E i \in DOMAIN console : console[i].msg = msg

\* C2: for a title present both in the documents and in the commits, if the
\* commit's file path differs from 'src/' + the listing's destination filename,
\* an error is reported and import aborts before writing any document.
C2_FilenameGate ==
    \A lang \in Langs :
        FilenameMismatch(lang) =>
            /\ ~WritesFor(lang)
            /\ (Lang = lang /\ Decided) =>
                    ipc = "aborted" /\ Printed("Error: inconsistent filename:")

\* C2 witness: the titles of the two sides are the same, one filename differs,
\* and the import of the language has aborted on it
C2_Witness ==
    /\ ipc = "aborted"
    /\ DocTitles(Lang) = CommitTitles(Lang)
    /\ FilenameMismatch(Lang)
    /\ Printed("Error: inconsistent filename:")

\* a 'Listing:' commit of the language's history touches more than one file
MultiFileListingCommit(lang) ==
    \E i \in DOMAIN ListingCommitsOf(lang) : Len(ListingCommitsOf(lang)[i].files) > 1

\* C3: a commit whose message matches 'Listing: X' and that touches two files
\* is an integrity error: the import of that history does not go on to rewrite
\* documents.
C3_OneFilePerCommit ==
    \A lang \in Langs :
        MultiFileListingCommit(lang) =>
            /\ ~WritesFor(lang)
            /\ (Lang = lang /\ Decided) => ~Proceeded

\* two listings of the language share a title
DuplicateTitle(lang) ==
    \E i, j \in DOMAIN ListingsOf(lang) :
        i # j /\ ListingsOf(lang)[i].title = ListingsOf(lang)[j].title

\* C4: when two listings of the same language share a title, the importer's
\* cross-reference surfaces the collision: it does not go on with one merged
\* entry for the two listings.
C4_DuplicateTitleSurfaces ==
    \A lang \in Langs :
        (DuplicateTitle(lang) /\ Lang = lang /\ Decided) => ipc = "aborted"

-----------------------------------------------------------------------------
(* Vocabulary of the properties on annotations and highlight ranges *)

\* the tokens of an annotation: its maximal pieces without a space
RECURSIVE Tokens(_)
Tokens(meta) ==
    IF meta = <<>> THEN <<>>
    ELSE IF Head(meta) = SP THEN Tokens(Tail(meta))
    ELSE LET stops == {i \in DOMAIN meta : meta[i] = SP}
             n     == IF stops = {} THEN Len(meta) + 1
                      ELSE CHOOSE i \in stops : \A j \in stops : i <= j
         IN <<SubSeq(meta, 1, n - 1)>> \o Tokens(SubSeq(meta, n, Len(meta)))

\* a bracketed range token: {...} with no further brace inside
IsRangeToken(token) ==
    /\ Len(token) >= 2
    /\ token[1] = Ch("{")
    /\ token[Len(token)] = Ch("}")
    /\ \A i \in 2..(Len(token) - 1) : token[i] \notin {Ch("{"), Ch("}")}

RangeTokens(meta) == SelectSeq(Tokens(meta), IsRangeToken)
OtherTokens(meta) == SelectSeq(Tokens(meta), LAMBDA t : ~IsRangeToken(t))

\* the title a code node carries in its annotation, "" if none
NodeTitle(node) ==
    IF node.meta # <<>> /\ node.meta[1].k = "filename" THEN node.meta[1].b ELSE ""

\* the code nodes the import of a language has to update, as <<document, index>>:
\* nodes of that language whose title has a 'Listing:' commit
NodesOf(lang) ==
    {n \in UNION {{<<doc, i>> : i \in DOMAIN pages0[doc]} : doc \in DOMAIN pages0} :
        /\ pages0[n[1]][n[2]].lang = lang
        /\ NodeTitle(pages0[n[1]][n[2]]) \in CommitTitles(lang)}

\* the import of the language has rewritten the document
Written(lang, doc) ==
    \E i \in DOMAIN writes : writes[i] = [lang |-> lang, filename |-> doc]

\* the nodes the import has updated so far
UpdatedNodes(lang) == {n \in NodesOf(lang) : Written(lang, n[1])}

\* the commit of a node's title, its hunks as git reports them and the lines
\* of its file (without the newline that ends the file)
NodeCommit(lang, n) == LastCommit(lang, NodeTitle(pages0[n[1]][n[2]]))
CommitHunks(commit) == Flatten([f \in DOMAIN commit.files |-> commit.files[f].hunks])
CommitLines(commit) ==
    LET content == commit.files[1].content
    IN IF Len(content) >= 2 /\ content[Len(content)] = ""
       THEN SubSeq(content, 1, Len(content) - 1) ELSE content

Blank(lines, n) == n \in DOMAIN lines /\ lines[n] = ""

\* the rendering of the hunks with newCount > 0 when the ranges that start at
\* a line of `shifted` move back by one line
RenderedPiece(h, shifted) ==
    IF h.newCount = 1
    THEN <<Ch(ToString(h.newStart))>>
    ELSE LET start == h.newStart
             end   == h.newStart + h.newCount - 1
             d     == IF start \in shifted THEN 1 ELSE 0
         IN <<Ch(ToString(start - d)), Ch("-"), Ch(ToString(end - d))>>

RECURSIVE JoinWithCommas(_)
JoinWithCommas(pieces) ==
    IF pieces = <<>> THEN <<>>
    ELSE IF Len(pieces) = 1 THEN pieces[1]
    ELSE pieces[1] \o <<Ch(",")>> \o JoinWithCommas(Tail(pieces))

Rendered(hunks, shifted) ==
    LET added == SelectSeq(hunks, LAMBDA h : h.newCount > 0)
    IN <<Ch("{")>>
       \o JoinWithCommas([i \in DOMAIN added |-> RenderedPiece(added[i], shifted)])
       \o <<Ch("}")>>

\* the range starts where a shift can apply at all: not at line 1 and after a blank line
MayShift(hunks, lines) ==
    {h.newStart : h \in {x \in Range(hunks) :
        x.newCount > 1 /\ x.newStart # 1 /\ Blank(lines, x.newStart - 1)}}

\* C9: only hunks with newCount > 0 contribute, newCount = 1 renders as the
\* bare number newStart, newCount > 1 renders as newStart-(newStart+newCount-1)
\* when no blank-line shift applies (and moved back by one line otherwise),
\* the pieces are joined with commas in hunk order and wrapped in braces.
C9_HighlightRendering ==
    \A n \in UpdatedNodes("rust") :
        LET commit == NodeCommit("rust", n)
            hunks  == CommitHunks(commit)
            lines  == CommitLines(commit)
        IN RangeTokens(pages[n[1]][n[2]].meta) \in
              { <<Rendered(hunks, D)>> : D \in SUBSET MayShift(hunks, lines) }

\* C9 witness: the hunks +2,1 and +9,2 have been rendered as {2,9-10}
C9_Witness ==
    /\ UpdatedNodes("rust") # {}
    /\ \E n \in UpdatedNodes("rust") :
          /\ CommitHunks(NodeCommit("rust", n)) = ExampleHunks
          /\ RangeTokens(pages[n[1]][n[2]].meta) =
                <<RangeToken(<<Ch("2"), Ch(","), Ch("9"), Ch("-"), Ch("10")>>)>>

\* C9 witness of the filter: a commit with a pure deletion and an added line
\* has been rendered as one bare number
C9_WitnessDeletion ==
    \E n \in UpdatedNodes("rust") :
        /\ \E h \in Range(CommitHunks(NodeCommit("rust", n))) : h.newCount = 0
        /\ \E h \in Range(CommitHunks(NodeCommit("rust", n))) : h.newCount = 1
        /\ Len(RangeTokens(pages[n[1]][n[2]].meta)[1]) = 3

\* the starts of the ranges start..end with line end+1 blank, start not 1 and
\* line start-1 blank
ShiftAsSpecified(hunks, lines) ==
    {h.newStart : h \in {x \in Range(hunks) :
        /\ x.newCount > 1
        /\ Blank(lines, x.newStart + x.newCount)
        /\ x.newStart # 1
        /\ Blank(lines, x.newStart - 1)}}

\* the starts of the ranges start..end with line end blank, start not 1 and
\* line start-1 blank
ShiftOnLastLine(hunks, lines) ==
    {h.newStart : h \in {x \in Range(hunks) :
        /\ x.newCount > 1
        /\ Blank(lines, x.newStart + x.newCount - 1)
        /\ x.newStart # 1
        /\ Blank(lines, x.newStart - 1)}}

\* C10 as stated: a range start..end of a hunk with newCount > 1 is moved back
\* by one line exactly when line end+1 is blank, start is not 1 and line
\* start-1 is blank.
C10_ShiftAfterEnd ==
    \A n \in UpdatedNodes("rust") :
        LET commit == NodeCommit("rust", n)
        IN RangeTokens(pages[n[1]][n[2]].meta) =
              <<Rendered(CommitHunks(commit),
                         ShiftAsSpecified(CommitHunks(commit), CommitLines(commit)))>>

\* C10 amended: a range start..end of a hunk with newCount > 1 is moved back by
\* one line exactly when its own last line (line end) is blank, start is not 1
\* and line start-1 is blank; otherwise it is rendered unshifted.
C10_ShiftOnBlankLastLine ==
    \A n \in UpdatedNodes("rust") :
        LET commit == NodeCommit("rust", n)
        IN RangeTokens(pages[n[1]][n[2]].meta) =
              <<Rendered(CommitHunks(commit),
                         ShiftOnLastLine(CommitHunks(commit), CommitLines(commit)))>>

\* C10 witness: a range that ends in a blank line and follows a blank line has
\* been moved back, with a non-blank line after it
C10_Witness ==
    \E n \in UpdatedNodes("rust") :
        LET commit == NodeCommit("rust", n)
            lines  == CommitLines(commit)
        IN /\ CommitHunks(commit) = <<Hunk(2, 0, 2, 2)>>
           /\ lines = <<"", "x", "", "x">>
           /\ RangeTokens(pages[n[1]][n[2]].meta) =
                 <<RangeToken(<<Ch("1"), Ch("-"), Ch("2")>>)>>

\* the annotation of a node before the import and now, and the range the
\* import computes for it
OldMeta(n) == pages0[n[1]][n[2]].meta
NewMeta(n) == pages[n[1]][n[2]].meta
ComputedRange(lang, n) ==
    Rendered(CommitHunks(NodeCommit(lang, n)),
             ShiftOnLastLine(CommitHunks(NodeCommit(lang, n)), CommitLines(NodeCommit(lang, n))))

\* the positions of the first opening and the last closing brace of an annotation
FirstOpen(meta) ==
    CHOOSE i \in DOMAIN meta : meta[i] = Ch("{") /\ \A j \in 1..(i - 1) : meta[j] # Ch("{")
LastClose(meta) ==
    CHOOSE i \in DOMAIN meta : meta[i] = Ch("}") /\ \A j \in (i + 1)..Len(meta) : meta[j] # Ch("}")

\* C7 as stated: an explicit brace-delimited range already present in a code
\* node's annotation is never overwritten by the import.
C7_ExplicitRangeKept ==
    \A n \in UpdatedNodes("rust") :
        RangeTokens(OldMeta(n)) # <<>> => RangeTokens(NewMeta(n)) = RangeTokens(OldMeta(n))

\* C7 amended: an explicit range is not authoritative. The import replaces the
\* text from the annotation's first opening brace to its last closing brace by
\* the range computed from the commit's hunks and keeps the text around it.
C7_ExplicitRangeReplaced ==
    \A n \in UpdatedNodes("rust") :
        RangeTokens(OldMeta(n)) # <<>> =>
            LET old == OldMeta(n)
                new == NewMeta(n)
            IN /\ SubSeq(new, FirstOpen(new), LastClose(new)) = ComputedRange("rust", n)
               /\ SubSeq(new, 1, FirstOpen(new) - 1) = SubSeq(old, 1, FirstOpen(old) - 1)
               /\ SubSeq(new, LastClose(new) + 1, Len(new)) = SubSeq(old, LastClose(old) + 1, Len(old))

\* C7 witness: the explicit range {1-2} of an annotation has been replaced by
\* the computed range {1}
C7_Witness ==
    \E n \in UpdatedNodes("rust") :
        /\ RangeTokens(OldMeta(n)) = <<RangeToken(<<Ch("1"), Ch("-"), Ch("2")>>)>>
        /\ RangeTokens(NewMeta(n)) = <<RangeToken(<<Ch("1")>>)>>

\* C8: the import changes only the bracketed range of an annotation: every
\* other token is the same before and after, and an annotation without a
\* bracketed range gets the computed range appended as a new token.
C8_OnlyRangeChanges ==
    \A n \in UpdatedNodes("rust") :
        /\ OtherTokens(NewMeta(n)) = OtherTokens(OldMeta(n))
        /\ RangeTokens(OldMeta(n)) = <<>> =>
              Tokens(NewMeta(n)) = Tokens(OldMeta(n)) \o <<ComputedRange("rust", n)>>

\* C8 restricted to annotations whose only braces are those of one range token
\* at most: there the import does what C8 says
C8_SingleBraceGroup ==
    \A n \in UpdatedNodes("rust") :
        (/\ Len(RangeTokens(OldMeta(n))) <= 1
         /\ \A t \in Range(OtherTokens(OldMeta(n))) : Ch("{") \notin Range(t)) =>
            /\ OtherTokens(NewMeta(n)) = OtherTokens(OldMeta(n))
            /\ RangeTokens(NewMeta(n)) = <<ComputedRange("rust", n)>>

-----------------------------------------------------------------------------
(* Vocabulary of the properties on export, round trip and document order *)

\* export and then import have both run to their end
RoundTripDone == epc = "done" /\ ipc = "done"

\* the listings extracted again after the import
Reextracted == getMdxListingsByLang(pages)

\* the content the last commit 'Listing: <title>' of the exported history
\* holds for the file, without the newline that ends it
LastCommitted(lang, title, filename) ==
    LET log  == exportFolder[lang].log
        is   == {i \in DOMAIN log : log[i].message = ListingMessage(title)}
        last == log[CHOOSE i \in is : \A j \in is : j <= i]
        file == CHOOSE f \in Range(last.files) : f.path = "src/" \o filename
    IN IF Len(file.content) >= 2 THEN SubSeq(file.content, 1, Len(file.content) - 1)
       ELSE file.content

\* the formatter leaves the file written for the code as it is
Formatted(c) == FormatFile(Append(c, "")) = Append(c, "")

\* no other listing of the collection has the listing's title
OnlyOfTitle(listings, i) ==
    \A j \in DOMAIN listings : j # i => listings[j].title # listings[i].title

\* C5 as stated: after export, import against that export and a new
\* extraction, every listing's code is the code that was exported for it.
C5_RoundTripIdentity ==
    RoundTripDone =>
        \A lang \in DOMAIN listingsByLang :
            /\ lang \in DOMAIN Reextracted
            /\ Len(Reextracted[lang]) = Len(listingsByLang[lang])
            /\ \A i \in DOMAIN listingsByLang[lang] :
                  Reextracted[lang][i].code = listingsByLang[lang][i].code

\* C5 amended: after export and a completed import against that export, every
\* re-extracted listing's code is the content of the last commit
\* 'Listing: <title>' of its language without the one trailing newline, and it
\* is the code exported for the listing when the formatter leaves that code
\* unchanged and no other listing of the language has the same title.
C5_RoundTripFormatted ==
    RoundTripDone =>
        \A lang \in DOMAIN listingsByLang :
            /\ lang \in DOMAIN Reextracted
            /\ Len(Reextracted[lang]) = Len(listingsByLang[lang])
            /\ \A i \in DOMAIN listingsByLang[lang] :
                  LET was == listingsByLang[lang][i]
                      now == Reextracted[lang][i]
                  IN /\ now.title = was.title
                     /\ now.code = LastCommitted(lang, was.title, was.filename)
                     /\ (Formatted(was.code) /\ OnlyOfTitle(listingsByLang[lang], i))
                            => now.code = was.code

\* C5 witness: a round trip has completed and brought one listing's code back
\* changed and another one's unchanged
C5_Witness ==
    /\ RoundTripDone
    /\ \E i \in DOMAIN listingsByLang["rust"] :
          Reextracted["rust"][i].code # listingsByLang["rust"][i].code
    /\ \E i \in DOMAIN listingsByLang["cpp"] :
          Reextracted["cpp"][i].code = listingsByLang["cpp"][i].code

\* the listings of a language in one document, top to bottom
DocListings(doc, lang) ==
    LET nodes == pages0[doc]
        of    == SelectSeq([i \in DOMAIN nodes |-> nodes[i]], LAMBDA n :
                    n.lang = lang /\ NodeTitle(n) # "")
    IN [i \in DOMAIN of |->
          [lang |-> lang, title |-> NodeTitle(of[i]), code |-> of[i].value]]

\* the orders of the documents that put a before b for every <<a, b>> of `before`
DocOrders(before) ==
    {o \in [1..Cardinality(DOMAIN pages0) -> DOMAIN pages0] :
        /\ \A i, j \in DOMAIN o : i # j => o[i] # o[j]
        /\ \A i, j \in DOMAIN o : <<o[i], o[j]>> \in before => i < j}

DocPairs == (DOMAIN pages0) \X (DOMAIN pages0)

\* a collection as C6 sees it
Collected(listings) ==
    [i \in DOMAIN listings |->
        [lang |-> listings[i].lang, title |-> listings[i].title, code |-> listings[i].code]]

InDocOrder(byLang, o) ==
    \A lang \in DOMAIN byLang :
        Collected(byLang[lang]) = Flatten([i \in DOMAIN o |-> DocListings(o[i], lang)])

-----------------------------------------------------------------------------
(* Properties of the fifteen-line case of the blank-line shift *)

\* the updated nodes whose commit has the hunk +11,4 on a file whose line 11
\* is blank and whose line 15 is not
FifteenCases ==
    {n \in UpdatedNodes("rust") :
        /\ CommitHunks(NodeCommit("rust", n)) = FifteenHunks
        /\ Len(CommitLines(NodeCommit("rust", n))) = 15
        /\ CommitLines(NodeCommit("rust", n))[11] = ""
        /\ CommitLines(NodeCommit("rust", n))[15] # ""}

Range10To13 == <<RangeToken(<<Ch("10"), Ch("-"), Ch("13")>>)>>
Range11To14 == <<RangeToken(<<Ch("11"), Ch("-"), Ch("14")>>)>>

\* C11 as stated: with lines 10 and 11 blank and line 15 not, the range 11-14
\* is rendered as 10-13 whatever line 14 contains; with line 10 non-blank it
\* is rendered as 11-14.
C11_ShiftWhateverLine14 ==
    \A n \in FifteenCases :
        RangeTokens(NewMeta(n)) =
            IF CommitLines(NodeCommit("rust", n))[10] = "" THEN Range10To13 ELSE Range11To14

\* C11 amended: with lines 10 and 11 blank and line 15 not, the range 11-14 is
\* rendered as 10-13 when line 14 is blank and as 11-14 when line 14 is not
\* blank; with line 10 non-blank it is rendered as 11-14.
C11_ShiftWhenLine14Blank ==
    \A n \in FifteenCases :
        RangeTokens(NewMeta(n)) =
            IF /\ CommitLines(NodeCommit("rust", n))[10] = ""
               /\ CommitLines(NodeCommit("rust", n))[14] = ""
            THEN Range10To13 ELSE Range11To14

\* C11 witness: lines 10, 11 and 14 blank, line 15 not, rendered as 10-13
C11_Witness ==
    \E n \in FifteenCases :
        /\ CommitLines(NodeCommit("rust", n))[10] = ""
        /\ CommitLines(NodeCommit("rust", n))[14] = ""
        /\ RangeTokens(NewMeta(n)) = Range10To13

-----------------------------------------------------------------------------
(* Properties of the newline that ends an exported file *)

\* the text ends with exactly one newline
EndsWithOneNewline(content) ==
    /\ Len(content) >= 2
    /\ content[Len(content)] = ""
    /\ Len(content) = 2 \/ content[Len(content) - 1] # ""

\* the file the export has just written for the current listing
WrittenFile == exportFolder[ExportLang].tree["src/" \o ExportListing.filename]

\* the file of the last commit 'Listing: <title>' of the exported history
CommittedFile(lang, title, filename) ==
    LET log  == exportFolder[lang].log
        is   == {i \in DOMAIN log : log[i].message = ListingMessage(title)}
        last == log[CHOOSE i \in is : \A j \in is : j <= i]
    IN (CHOOSE f \in Range(last.files) : f.path = "src/" \o filename).content

\* the repository holds the listing's code as the export wrote it
UnchangedInRepo(lang, listing) ==
    CommittedFile(lang, listing.title, listing.filename) = Append(listing.code, "")

ReplacementReported(title) ==
    \E i \in DOMAIN console : console[i] = Out("Replacing code: ", title, "")

\* what the commit reader returned is the committed file without one final newline
ReaderTrimsOne ==
    ipc \in {"check", "rewrite"} =>
        \A i \in DOMAIN gitCommits :
            LET content == GitShowBlob(repo[Lang], gitCommits[i].hash, gitCommits[i].filename)
            IN IF Len(content) >= 2 /\ content[Len(content)] = ""
               THEN Append(gitCommits[i].code, "") = content
               ELSE gitCommits[i].code = content

\* unchanged code comes back as it was and no replacement is reported for it
UnchangedComesBack ==
    RoundTripDone =>
        \A lang \in DOMAIN listingsByLang : \A i \in DOMAIN listingsByLang[lang] :
            LET was == listingsByLang[lang][i]
            IN UnchangedInRepo(lang, was) =>
                /\ Reextracted[lang][i].code = was.code
                /\ (\A l2 \in DOMAIN listingsByLang : \A j \in DOMAIN listingsByLang[l2] :
                        listingsByLang[l2][j].title = was.title
                            => UnchangedInRepo(l2, listingsByLang[l2][j]))
                    => ~ReplacementReported(was.title)

\* C12 as stated: the file written by export always ends with exactly one
\* newline, the reader removes exactly one trailing newline, and code left
\* unchanged in the repository is read back equal with no replacement reported.
C12_FileEndsWithOneNewline ==
    /\ epc = "format" => EndsWithOneNewline(WrittenFile)
    /\ ReaderTrimsOne
    /\ UnchangedComesBack

\* C12 amended: the file written by export is the listing's code followed by
\* exactly one added newline (two newlines end it when the code itself ends
\* with one), the reader removes exactly one trailing newline, and code left
\* unchanged in the repository is read back equal with no replacement reported.
C12_OneNewlineAddedOneRemoved ==
    /\ epc = "format" =>
          /\ WrittenFile[Len(WrittenFile)] = ""
          /\ SubSeq(WrittenFile, 1, Len(WrittenFile) - 1) = ExportListing.code
    /\ ReaderTrimsOne
    /\ UnchangedComesBack

\* C12 witness: a round trip is complete, the repository holds a rust
\* listing's code as written and no replacement was reported for it
C12_Witness ==
    /\ RoundTripDone
    /\ \E i \in DOMAIN listingsByLang["rust"] :
          /\ UnchangedInRepo("rust", listingsByLang["rust"][i])
          /\ Reextracted["rust"][i].code = listingsByLang["rust"][i].code
          /\ ~ReplacementReported(listingsByLang["rust"][i].title)

-----------------------------------------------------------------------------
(* Properties of the exported history *)

\* the messages of the commits of a language's exported repository, oldest first
ExportedMessages(lang) ==
    [i \in DOMAIN exportFolder[lang].log |-> exportFolder[lang].log[i].message]

\* the messages the listings call for: 'Add <dep> to Cargo' for a declared
\* dependency, then 'Listing: <title>'
RECURSIVE ListingMessages(_)
ListingMessages(listings) ==
    IF listings = <<>> THEN <<>>
    ELSE LET l == Head(listings)
         IN (IF l.addCargoDep # ""
             THEN <<OtherMessage("Add " \o l.addCargoDep \o " to Cargo")>> ELSE <<>>)
            \o <<ListingMessage(l.title)>>
            \o ListingMessages(Tail(listings))

\* C13: after a successful export the history of each language is 'Initial
\* commit', then for every listing in collection order an 'Add <dep> to Cargo'
\* commit iff it declares a dependency, then exactly one 'Listing: <title>' commit.
C13_ExportedHistory ==
    epc = "done" =>
        \A lang \in DOMAIN listingsByLang :
            ExportedMessages(lang)
                = <<OtherMessage("Initial commit")>> \o ListingMessages(listingsByLang[lang])

-----------------------------------------------------------------------------
(* Properties of a failing export *)

IsPrefix(a, b) == Len(a) <= Len(b) /\ SubSeq(b, 1, Len(a)) = a

\* the steps the export takes for the listings of a language when nothing fails
StepsOfLang(lang) ==
    Flatten([i \in DOMAIN listingsByLang[lang] |->
        LET steps == SelectSeq(ExportSteps,
                               LAMBDA st : StepWanted(st, listingsByLang[lang][i]))
        IN [k \in DOMAIN steps |->
               [lang |-> lang, title |-> listingsByLang[lang][i].title, step |-> steps[k]]]])

StepsOfExport == Flatten([l \in DOMAIN ExportLangs |-> StepsOfLang(ExportLangs[l])])

\* the steps taken so far are the first steps of the whole export: none was left out
NothingSkipped == epc \notin {"start", "idle"} => IsPrefix(elog, StepsOfExport)

\* once a tool has failed nothing is written, committed or generated any more
StoppedAfterFailure == epc = "failed" => UNCHANGED exportVars

\* C14: when the formatter, the dependency-add, the build or the run fails for
\* a listing the export stops there: no step of that listing is skipped and no
\* later listing is written or committed.
C14_FailureStopsExport == []NothingSkipped /\ [][StoppedAfterFailure]_vars

\* C14 witness: the formatter failed on a listing that is not the last of its
\* language: its code is written, nothing of it or of a later listing is committed
C14_Witness ==
    /\ epc = "failed"
    /\ eIdx < Len(listingsByLang[ExportLang])
    /\ elog # <<>>
    /\ elog[Len(elog)] = Logged("write")
    /\ IsPrefix(elog, StepsOfExport)

-----------------------------------------------------------------------------
(* Properties of the command-line flags *)

StepsTaken == {elog[i].step : i \in DOMAIN elog}

GeneratedImages(lang) == exportFolder[lang].images

\* C15: with none of --check-compile, --gen-image, --gen-large-image the
\* export takes no build and no run step for any listing, whatever the
\* listings are flagged with; it writes, formats and commits (and adds the
\* declared dependencies).
C15_NoFlagsNoBuildNoRun ==
    opts = NoOpts =>
        /\ epc \notin {"build", "image"}
        /\ StepsTaken \subseteq {"dep", "write", "format", "commit"}
        /\ \A lang \in DOMAIN exportFolder : GeneratedImages(lang) = <<>>

\* C15 witness: an export without flags has ended and a listing flagged
\* genImage was written, formatted and committed
C15_Witness ==
    /\ opts = NoOpts
    /\ epc = "done"
    /\ \E lang \in DOMAIN listingsByLang : \E i \in DOMAIN listingsByLang[lang] :
          LET l == listingsByLang[lang][i]
          IN /\ ListingFlag(l, "genImage")
             /\ \A st \in {"write", "format", "commit"} :
                   \E k \in DOMAIN elog : elog[k] = [lang |-> lang, title |-> l.title, step |-> st]


\* the export generated an image for a listing
ImageGenerated(lang, listing) ==
    \E k \in DOMAIN elog : elog[k] = [lang |-> lang, title |-> listing.title, step |-> "image"]

\* the listing is flagged for image generation, small or large
FlaggedForImage(listing) ==
    ListingFlag(listing, "genImage") \/ ListingFlag(listing, "genLargeImage")

\* C16: an export with --gen-large-image that ends normally has generated the
\* image of every listing flagged genImage or genLargeImage; with --gen-image
\* alone it has generated the images of the listings flagged genImage only.
C16_LargeImageGeneratesAll ==
    epc = "done" =>
        \A lang \in DOMAIN listingsByLang : \A i \in DOMAIN listingsByLang[lang] :
            LET l == listingsByLang[lang][i]
            IN /\ opts.genLargeImage => (FlaggedForImage(l) => ImageGenerated(lang, l))
               /\ opts.genImage /\ ~opts.genLargeImage =>
                     (ImageGenerated(lang, l) <=> ListingFlag(l, "genImage"))

-----------------------------------------------------------------------------
(* Properties of an empty content tree *)

\* the languages with no listing in the documents
LangsWithoutListing == {lang \in Langs : ListingsOf(lang) = <<>>}

\* C17: with no document, or no listing for a language, the export creates no
\* repository and no commit for it and ends normally, and the import ends
\* without raising an error and without writing anything for it.
C17_ZeroDocumentsGraceful ==
    LangsWithoutListing # {} =>
        /\ ipc # "crashed"
        /\ \A lang \in LangsWithoutListing : ~WritesFor(lang)
        /\ epc # "failed"
        /\ \A lang \in LangsWithoutListing : lang \notin DOMAIN exportFolder

-----------------------------------------------------------------------------
(* Properties of the report of the cross-reference *)

MissingInDocs(lang) ==
    {Out("Error: mdx missing:", t, "") : t \in CommitTitles(lang) \ DocTitles(lang)}

MissingInCommits(lang) ==
    {Out("Error: git missing:", t, "") : t \in DocTitles(lang) \ CommitTitles(lang)}

Mismatches(lang) ==
    {Out("Error: inconsistent filename:", RecordedPath(LastCommit(lang, t)),
         LastListing(lang, t).filename) :
        t \in {u \in DocTitles(lang) \cap CommitTitles(lang) :
                  RecordedPath(LastCommit(lang, u)) # "src/" \o LastListing(lang, u).filename}}

Violations(lang) == MissingInDocs(lang) \cup MissingInCommits(lang) \cup Mismatches(lang)

-----------------------------------------------------------------------------
(* Properties of the generated images *)

\* the image files the listings of a language call for: one per listing
\* flagged for image generation, numbered from 1 in listing order
ImagesCalledFor(lang) ==
    LET flagged == SelectSeq(listingsByLang[lang], FlaggedForImage)
    IN [k \in DOMAIN flagged |-> ImageFilename(k, flagged[k].title)]

\* C19: when image generation is enabled (--gen-image or --gen-large-image),
\* the image files of a language are image<k>-<slug of title>.ppm, one per
\* flagged listing, k counting from 1 in listing order without gaps: at any
\* moment the first of them, after a successful export all of them.
C19_ImageArtifacts ==
    (opts.genImage \/ opts.genLargeImage) =>
        \A lang \in DOMAIN exportFolder :
            /\ IsPrefix(GeneratedImages(lang), ImagesCalledFor(lang))
            /\ epc = "done" => GeneratedImages(lang) = ImagesCalledFor(lang)

-----------------------------------------------------------------------------
(* Properties of the commit history reader *)

\* the places in the history of the commits whose message is 'Listing: <title>'
ListingPlaces(lang) == {i \in DOMAIN repo[lang] : repo[lang][i].message.listing}

\* the reader has returned and the importer has not yet moved to the next language
CommitsRead == ipc \in {"check", "rewrite", "aborted"}

\* C20: the reader returns exactly the commits whose message is
\* 'Listing: <title>', oldest first, each with its title; the other commits
\* (the initial commit, the dependency commits) are left out and print nothing.
C20_ReaderReturnsListingCommits ==
    CommitsRead =>
        /\ {gitCommits[i].hash : i \in DOMAIN gitCommits} = ListingPlaces(Lang)
        /\ Len(gitCommits) = Cardinality(ListingPlaces(Lang))
        /\ \A i, j \in DOMAIN gitCommits : i < j => gitCommits[i].hash < gitCommits[j].hash
        /\ \A i \in DOMAIN gitCommits :
              gitCommits[i].message = repo[Lang][gitCommits[i].hash].message.text
        /\ (ipc = "check" /\ langIdx = 1 /\ ~MultiFileListingCommit(Lang)) => console = <<>>

\* C20 witness: an exported rust history with an initial commit, a dependency
\* commit and two listing commits has been read
C20_Witness ==
    /\ ipc = "check"
    /\ Lang = "rust"
    /\ Len(gitCommits) = 2
    /\ repo[Lang][1].message = OtherMessage("Initial commit")
    /\ \E i \in DOMAIN repo[Lang] : repo[Lang][i].message = OtherMessage("Add rand to Cargo")
    /\ gitCommits[1].hash < gitCommits[2].hash
    /\ console = <<>>

-----------------------------------------------------------------------------
(* Properties of the parsing of annotations *)

\* the same tokens in every order
Reorderings(tokens) ==
    {[i \in DOMAIN tokens |-> tokens[f[i]]] :
        f \in {g \in [DOMAIN tokens -> DOMAIN tokens] :
                  \A i, j \in DOMAIN tokens : i # j => g[i] # g[j]}}

\* the code nodes of the documents as they were before the import
NodesBefore == UNION {Range(pages0[doc]) : doc \in DOMAIN pages0}

\* C21: the record parsed from an annotation made of the tokens filename,
\* addCargoDep, genImage and {ranges} is the same for every order of the tokens.
C21_TokenOrderInsensitive ==
    \A node \in NodesBefore :
        \A tokens \in Reorderings(Tokens(node.meta)) :
            parseMdAstNodeMeta([node EXCEPT !.meta = JoinWithSpaces(tokens)])
                = parseMdAstNodeMeta(node)


\* the annotation carries the token filename="<path> | <title>"
CarriesFilename(node) ==
    \E i \in DOMAIN Tokens(node.meta) : Tokens(node.meta)[i][1].k = "filename"

\* the code blocks of the documents before the import, documents in sorted
\* order, blocks top to bottom
BlocksBefore ==
    LET names == getSortedMdxFilenames(pages0)
    IN Flatten([i \in DOMAIN names |-> pages0[names[i]]])

\* the code of the blocks that are listings of a language by their language
\* tag and their filename token
ListingBlocks(lang) ==
    LET blocks == SelectSeq(BlocksBefore, LAMBDA n : n.lang = lang /\ CarriesFilename(n))
    IN [i \in DOMAIN blocks |-> blocks[i].value]

\* the code of the listings the importer collected for a language
CollectedCode(lang) ==
    IF lang \in DOMAIN mdxListingsByLang
    THEN [i \in DOMAIN mdxListingsByLang[lang] |-> mdxListingsByLang[lang][i].code]
    ELSE <<>>

\* C22: a code block is in a language's listing collection iff its language
\* tag is rust or cpp and its annotation carries the filename token; any
\* other block is left out, the others are all there, in order.
C22_ParseSkip ==
    ipc \notin {"start", "idle"} =>
        /\ DOMAIN mdxListingsByLang \subseteq ALLOW_LANGS
        /\ \A lang \in ALLOW_LANGS : CollectedCode(lang) = ListingBlocks(lang)

-----------------------------------------------------------------------------
(* Properties of what the import writes and changes *)

\* the import wrote the document
WrittenDoc(doc) == \E k \in DOMAIN writes : writes[k].filename = doc

\* C23: a document in which the import changed no code node's code or
\* annotation is not written.
C23_OnlyModifiedWritten ==
    \A doc \in DOMAIN pages : pages[doc] = pages0[doc] => ~WrittenDoc(doc)

-----------------------------------------------------------------------------
(* Properties of the hunk headers the reader parses *)

\* the hunks of a commit, in the order git prints their headers
HunksOfCommit(commit) == Flatten([f \in DOMAIN commit.files |-> commit.files[f].hunks])

\* the header of the hunk leaves out the count of the new file ('+N')
CountOmitted(hunk) == Len(GitRange(hunk.newStart, hunk.newCount)) = 1

\* C24: for every hunk header of a listing commit the reader records a hunk
\* with the written starts and counts, the count being 1 where the header
\* leaves it out; a header '+N' yields newStart = N and newCount = 1.
C24_HunkHeaderParsing ==
    CommitsRead =>
        \A i \in DOMAIN gitCommits :
            LET hunks == HunksOfCommit(repo[Lang][gitCommits[i].hash])
            IN /\ Len(gitCommits[i].diffRanges) = Len(hunks)
               /\ \A k \in DOMAIN hunks :
                     /\ gitCommits[i].diffRanges[k] =
                           [start1 |-> hunks[k].oldStart, count1 |-> hunks[k].oldCount,
                            start2 |-> hunks[k].newStart, count2 |-> hunks[k].newCount]
                     /\ CountOmitted(hunks[k]) => gitCommits[i].diffRanges[k].count2 = 1

\* C24 witness: a commit with a header '+N' and a header '+N,M' has been read
C24_Witness ==
    /\ ipc = "check"
    /\ \E i \in DOMAIN gitCommits :
          LET hunks == HunksOfCommit(repo[Lang][gitCommits[i].hash])
          IN /\ Len(gitCommits[i].diffRanges) = Len(hunks)
             /\ \E k, m \in DOMAIN hunks :
                   /\ CountOmitted(hunks[k])
                   /\ gitCommits[i].diffRanges[k].count2 = 1
                   /\ ~CountOmitted(hunks[m])
                   /\ gitCommits[i].diffRanges[m].count2 = hunks[m].newCount


\* the languages whose import went through to "Done!"
ImportedLangs ==
    {importSpecs[k] : k \in {j \in DOMAIN importSpecs :
                                j < langIdx \/ (j = langIdx /\ ipc = "done")}}

\* the nodes the import has visited whose code differed from their commit's
NodesToReplace ==
    UNION {{<<lang, n>> : n \in {m \in UpdatedNodes(lang) :
                pages0[m[1]][m[2]].value # CommitLines(NodeCommit(lang, m))}} : lang \in Langs}

Replacements == SelectSeq(console, LAMBDA line : line.msg = "Replacing code: ")

\* C25: after the import of a language that passed the cross-reference gate
\* every code node of the language whose title has a commit holds that
\* commit's file content without its final newline, and the code of a node
\* that already equalled it is not replaced: replacements are reported for
\* the nodes that differed and for no other.
C25_ImporterPostcondition ==
    /\ \A lang \in ImportedLangs : \A n \in NodesOf(lang) :
          pages[n[1]][n[2]].value = CommitLines(NodeCommit(lang, n))
    /\ Len(Replacements) = Cardinality(NodesToReplace)
    /\ \A i \in DOMAIN Replacements :
          \E p \in NodesToReplace : Replacements[i].a = NodeTitle(pages0[p[2][1]][p[2][2]])

\* C25 witness: the rust import is complete, one rust node was replaced and
\* another already held its commit's code
C25_Witness ==
    /\ "rust" \in ImportedLangs
    /\ \E n \in NodesOf("rust") : <<"rust", n>> \in NodesToReplace
    /\ \E n \in NodesOf("rust") :
          /\ <<"rust", n>> \notin NodesToReplace
          /\ pages[n[1]][n[2]].value = pages0[n[1]][n[2]].value
          /\ pages[n[1]][n[2]].value = CommitLines(NodeCommit("rust", n))

-----------------------------------------------------------------------------
(* Properties of the order of the steps of the export *)

SameListing(a, b) == a.lang = b.lang /\ a.title = b.title

\* the step at place k of the log comes where the order of the steps allows it
InOrder(k) ==
    LET e        == elog[k]
        first    == k = 1
        prev     == elog[k - 1]
        newStart == first \/ prev.step \in {"commit", "build", "image"}
    IN CASE e.step = "dep"    -> newStart
         [] e.step = "write"  -> newStart \/ (prev.step = "dep" /\ SameListing(prev, e))
         [] e.step = "format" -> ~first /\ prev.step = "write" /\ SameListing(prev, e)
         [] e.step = "commit" -> ~first /\ prev.step = "format" /\ SameListing(prev, e)
         [] e.step = "build"  -> ~first /\ prev.step = "commit" /\ SameListing(prev, e)
         [] e.step = "image"  -> ~first /\ prev.step = "build" /\ SameListing(prev, e)

\* the commit step leaves the formatted file of the listing committed
CommitHoldsFormattedFile ==
    epc = "commit" =>
        LET path == "src/" \o ExportListing.filename
            wc   == exportFolder'[ExportLang]
        IN /\ path \in DOMAIN wc.head
           /\ wc.head[path] = FormatFile(Append(ExportListing.code, ""))
           /\ wc.head[path] = wc.tree[path]

\* the steps logged so far come in the order of the steps
StepsInOrder == \A k \in DOMAIN elog : InOrder(k)

\* C26: for one listing the steps are the dependency add and its commit (if
\* declared), the write, the formatter, the 'Listing: <title>' commit, the
\* release build (if enabled and flagged), the image run; the listing commit
\* holds the formatted file, and an image is generated only after the commit
\* step and the successful build of the same listing.
C26_StepOrder == []StepsInOrder /\ [][CommitHoldsFormattedFile]_vars

\* C26 witness: an export has ended in which one listing went through all six steps
C26_Witness ==
    /\ epc = "done"
    /\ \E k \in DOMAIN elog :
          /\ k + 5 \in DOMAIN elog
          /\ \A d \in 0..5 : SameListing(elog[k], elog[k + d])
          /\ <<elog[k].step, elog[k + 1].step, elog[k + 2].step,
               elog[k + 3].step, elog[k + 4].step, elog[k + 5].step>>
                 = <<"dep", "write", "format", "commit", "build", "image">>
          /\ \A j \in DOMAIN elog : InOrder(j)


\* a step leaves every code node of another language than the imported one as it is
OtherLangsUntouched ==
    \A doc \in DOMAIN pages : \A i \in DOMAIN pages[doc] :
        pages[doc][i].lang # Lang => pages'[doc][i] = pages[doc][i]

\* C27: importing a language changes only code nodes tagged with that
\* language; a node of the other language with the same title keeps its code
\* and its annotation.
C27_OnlyNodesOfLanguage == [][OtherLangsUntouched]_vars

\* C27 witness: the rust import is through and has replaced the code of a rust
\* node; a cpp node of the same title, whose code differs from the rust
\* commit's, is as it was
C27_Witness ==
    /\ langIdx = 2
    /\ ipc = "commits"
    /\ \E n \in NodesOf("rust") : \E doc \in DOMAIN pages : \E i \in DOMAIN pages[doc] :
          /\ <<"rust", n>> \in NodesToReplace
          /\ pages[doc][i].lang = "cpp"
          /\ NodeTitle(pages[doc][i]) = NodeTitle(pages0[n[1]][n[2]])
          /\ pages[doc][i] = pages0[doc][i]
          /\ pages[doc][i].value # CommitLines(NodeCommit("rust", n))

-----------------------------------------------------------------------------
(* Properties of an import that aborts *)

LangNo(lang) == CHOOSE k \in DOMAIN importSpecs : importSpecs[k] = lang

\* the documents are written language after language, in the order of importSpecs
WrittenInLanguageOrder ==
    /\ \A k \in DOMAIN writes : LangNo(writes[k].lang) <= langIdx
    /\ \A k, m \in DOMAIN writes : k < m => LangNo(writes[k].lang) <= LangNo(writes[m].lang)

\* an integrity error ends the import: nothing is written for the language it
\* was found for nor for a later one, every document is written for the earlier ones
AbortEndsImport ==
    Printed("Error: aborting because of errors") =>
        /\ ipc = "aborted"
        /\ \A j \in DOMAIN importSpecs :
              IF j < langIdx
              THEN /\ \A doc \in DOMAIN pages : Written(importSpecs[j], doc)
                   /\ \A n \in NodesOf(importSpecs[j]) :
                         pages[n[1]][n[2]].value = CommitLines(NodeCommit(importSpecs[j], n))
              ELSE ~WritesFor(importSpecs[j])

\* C28: the languages are imported one after the other with the gate
\* evaluated per language; an integrity error found for a language ends the
\* whole import: no document is written for it or for a later language, and
\* the documents rewritten for the earlier languages stay rewritten.
C28_AbortScope == WrittenInLanguageOrder /\ AbortEndsImport

\* C28 witness: the import aborted on cpp after it had rewritten the documents for rust
C28_Witness ==
    /\ ipc = "aborted"
    /\ Lang = "cpp"
    /\ WritesFor("rust")
    /\ ~WritesFor("cpp")
    /\ \A doc \in DOMAIN pages : Written("rust", doc)

-----------------------------------------------------------------------------
(* Properties of the pieces of a rendered highlight string *)

\* the line number a piece of text stands for, among the lines of a file of n
\* lines and the line before the first; -1 if it is none of them
LineNumber(text, n) ==
    IF \E k \in 0..n : text = Ch(ToString(k))
    THEN CHOOSE k \in 0..n : text = Ch(ToString(k))
    ELSE -1

\* the pieces of the inside of a range token, as first and last line
RECURSIVE PiecesOf(_, _)
PiecesOf(inner, n) ==
    IF inner = <<>> THEN <<>>
    ELSE LET commas == {i \in DOMAIN inner : inner[i] = Ch(",")}
             stop   == IF commas = {} THEN Len(inner) + 1
                       ELSE CHOOSE i \in commas : \A j \in commas : i <= j
             piece  == SubSeq(inner, 1, stop - 1)
         IN <<[first |-> LineNumber(piece[1], n),
               last  |-> LineNumber(piece[Len(piece)], n)]>>
            \o PiecesOf(SubSeq(inner, stop + 1, Len(inner)), n)

\* the pieces of the range the import has written into a node's annotation
RenderedPieces(n) ==
    LET token == RangeTokens(NewMeta(n))[1]
    IN PiecesOf(SubSeq(token, 2, Len(token) - 1), Len(CommitLines(NodeCommit("rust", n))))

-----------------------------------------------------------------------------
(* Properties of commits that share a title *)

\* two 'Listing:' commits of the language's history carry the same title
DuplicateCommitTitle(lang) ==
    \E i, j \in DOMAIN ListingCommitsOf(lang) :
        i # j /\ ListingCommitsOf(lang)[i].message = ListingCommitsOf(lang)[j].message

\* the place in the history of the last commit 'Listing: <title>'
LastPlace(lang, title) ==
    CHOOSE i \in DOMAIN repo[lang] :
        /\ repo[lang][i].message = ListingMessage(title)
        /\ \A j \in DOMAIN repo[lang] : repo[lang][j].message = ListingMessage(title) => j <= i

\* the lines of the console that report an integrity violation
ViolationLines ==
    {console[i] : i \in {k \in DOMAIN console :
        console[k].msg \in {"Error: mdx missing:", "Error: git missing:",
                            "Error: inconsistent filename:"}}}

\* C30: when several commits of a history carry the same 'Listing: <title>'
\* message the importer keeps one entry for the title, the last such commit,
\* and uses its file path, code and hunks for the cross-reference and the
\* rewrite; nothing is reported for the duplicate.
C30_LastCommitOfTitle ==
    \A lang \in Langs :
        (DuplicateCommitTitle(lang) /\ Lang = lang /\ CommitsRead) =>
            /\ \A t \in CommitTitles(lang) :
                  TitleToGitCommit(gitCommits)[t].hash = LastPlace(lang, t)
            /\ ipc # "check" =>
                  /\ ViolationLines = Violations(lang)
                  /\ ipc = "rewrite" <=> Violations(lang) = {}
            /\ \A n \in UpdatedNodes(lang) :
                  /\ pages[n[1]][n[2]].value = CommitLines(NodeCommit(lang, n))
                  /\ RangeTokens(NewMeta(n)) = <<ComputedRange(lang, n)>>

\* C30 witness: the rust history holds two commits 'Listing: B' with different
\* code, the import went on without a report and a node titled B holds the
\* code of the second
C30_Witness ==
    /\ Lang = "rust"
    /\ ipc = "rewrite"
    /\ ViolationLines = {}
    /\ \E i, j \in DOMAIN ListingCommitsOf("rust") :
          /\ i < j
          /\ ListingCommitsOf("rust")[i].message = ListingCommitsOf("rust")[j].message
          /\ CommitLines(ListingCommitsOf("rust")[i]) # CommitLines(ListingCommitsOf("rust")[j])
          /\ \E n \in UpdatedNodes("rust") :
                /\ NodeTitle(pages0[n[1]][n[2]]) = ListingCommitsOf("rust")[j].message.text
                /\ pages[n[1]][n[2]].value = CommitLines(ListingCommitsOf("rust")[j])
                /\ pages[n[1]][n[2]].value # CommitLines(ListingCommitsOf("rust")[i])

====
